---- MODULE Spec2Model ----
(***************************************************************************)
(* Fine-grained reactivity runtime: graph (link/unlink/track), signals,    *)
(* computeds, effects and the baseline scheduler with batch / transaction  *)
(* / atomic scopes and write-log rollback.                                 *)
(*                                                                         *)
(* The runtime is a library; its handlers are called by user code.  User   *)
(* code is modelled as the environment: it opens scopes (batch, atomic),   *)
(* writes signals, reads computeds, creates and disposes effects, calls    *)
(* flushSync, and leaves scopes by return, throw or by returning a         *)
(* promise.  The host runs the queued flush microtasks once the            *)
(* synchronous call stack (ctx) is empty.                                  *)
(*                                                                         *)
(* Handlers are written as operators on a record S holding the whole       *)
(* runtime state, in the order of the statements of the source; an action  *)
(* applies one handler to the current state.                               *)
(***************************************************************************)
EXTENDS Integers, Sequences, FiniteSets, TLC

\* ------------------------------------------------------------------ bounds
MaxVal == 1
MaxScopes == 2
MaxMicro == 2
MaxSteps == 6
MaxGraphSteps == 5
MaxUserSteps == 4
MaxCalls == 2

\* ------------------------------------------------------- program constants
GuardLimit == 10000

\* ------------------------------------------------------------------- nodes
Signals == {"s1", "s2"}
Computeds == {"c1", "c2"}
Effects == {"e1", "e2"}
Nodes == Signals \cup Computeds \cup Effects
Vals == 0..MaxVal
None == "none"

Kind(n) ==
  IF n \in Signals THEN "signal" ELSE IF n \in Computeds THEN "computed" ELSE "effect"

VARIABLES
  value,            \* signal node.value
  cval,             \* computed node.value
  stale,            \* computed node.stale
  hasValue,         \* computed node.hasValue
  computing,        \* computed node.computing
  deps,             \* node.deps  (insertion-ordered Set)
  subs,             \* node.subs  (insertion-ordered Set)
  currentObserver,  \* graph: currentObserver
  activeEffect,     \* effect: activeEffect
  registry,         \* effect registry: the nodes that have an instance
  cleanups,         \* EffectInstance.cleanups
  disposed,         \* EffectInstance.disposed
  queue,            \* scheduler: queue (insertion-ordered Set of jobs)
  scheduled,        \* scheduler: scheduled
  batchDepth,       \* scheduler: batchDepth
  atomicDepth,      \* scheduler: atomicDepth
  atomicLogs,       \* scheduler: atomicLogs (stack of write logs)
  muted,            \* scheduler: muted
  prog,             \* user code: which application's functions are installed
  microtasks,       \* host: number of flushJobs microtasks outstanding
  ctx,              \* user code: stack of open synchronous scopes
  pending,          \* user code: async scopes whose promise has not settled
  logOwner,         \* history: for each log of atomicLogs, the scope that pushed it
  ran,              \* history: effect bodies / cleanups executed by the last step
  thrown,           \* history: error the last step threw to its caller
  calls,            \* history: computeds whose fn the last step invoked, in order
  reads,            \* history: the get() calls of the last step, as <<observer, node>>
  op,               \* history: the operation performed by the last step
  steps,            \* history: number of steps taken (bounded by MaxSteps)
  guards,           \* flushJobs: the local guard of each call in progress
  allJobs,          \* topological scheduler: the queued jobs, in insertion order
  tick,             \* topological scheduler: the next enqueue tick
  indegree,         \* job -> __indegree__, <<>> while it has none
  enq,              \* job -> __enq__, <<>> while it has none
  jobKind,          \* job -> "computed", "effect", or None for a job without kind
  priority,         \* job -> <<priority>>, <<>> for a job without priority
  dependsOn,        \* job -> the jobs of its dependsOn set
  body,             \* job -> what its run() does
  round             \* history: the course of the last topological flush round

vars == <<value, cval, stale, hasValue, computing, deps, subs, currentObserver,
          activeEffect, registry, cleanups, disposed, queue, scheduled, batchDepth,
          atomicDepth, atomicLogs, muted, microtasks, ctx, pending, logOwner,
          ran, thrown, op, steps, prog, calls, reads, guards, allJobs, tick,
          indegree, enq, jobKind, priority, dependsOn, body, round>>

\* the state of the topological scheduler and of its jobs
Jobs == {"j1", "j2", "j3"}
jobVars == <<jobKind, priority, body>>
topoVars == <<allJobs, tick, indegree, enq, dependsOn, round, jobVars>>

\* The current state as one record; ret carries a handler's return value.
Cur ==
  [value |-> value, cval |-> cval, stale |-> stale, hasValue |-> hasValue,
   computing |-> computing, deps |-> deps, subs |-> subs,
   currentObserver |-> currentObserver, activeEffect |-> activeEffect,
   registry |-> registry, cleanups |-> cleanups, disposed |-> disposed,
   queue |-> queue, scheduled |-> scheduled, batchDepth |-> batchDepth,
   atomicDepth |-> atomicDepth, atomicLogs |-> atomicLogs, muted |-> muted,
   microtasks |-> microtasks, logOwner |-> logOwner, prog |-> prog,
   ran |-> <<>>, thrown |-> None, calls |-> <<>>, reads |-> <<>>, ret |-> 0]

Apply(S) ==
  /\ value' = S.value
  /\ cval' = S.cval
  /\ stale' = S.stale
  /\ hasValue' = S.hasValue
  /\ computing' = S.computing
  /\ deps' = S.deps
  /\ subs' = S.subs
  /\ currentObserver' = S.currentObserver
  /\ activeEffect' = S.activeEffect
  /\ registry' = S.registry
  /\ cleanups' = S.cleanups
  /\ disposed' = S.disposed
  /\ queue' = S.queue
  /\ scheduled' = S.scheduled
  /\ batchDepth' = S.batchDepth
  /\ atomicDepth' = S.atomicDepth
  /\ atomicLogs' = S.atomicLogs
  /\ muted' = S.muted
  /\ microtasks' = S.microtasks
  /\ logOwner' = S.logOwner
  /\ ran' = S.ran
  /\ thrown' = S.thrown
  /\ calls' = S.calls
  /\ reads' = S.reads
  /\ prog' = S.prog
  /\ UNCHANGED topoVars

\* ------------------------------------------- insertion-ordered Set / Map
Range(q) == {q[i] : i \in 1..Len(q)}
\* an array push where the Set's add belongs
arrayPush(q, x) == Append(q, x)
SetAdd(q, x) == IF x \in Range(q) THEN q ELSE Append(q, x)
SetDelete(q, x) == SelectSeq(q, LAMBDA y : y # x)

MapHas(m, k) == \E i \in 1..Len(m) : m[i][1] = k
MapGet(m, k) == m[CHOOSE i \in 1..Len(m) : m[i][1] = k][2]
MapKeys(m) == {m[i][1] : i \in 1..Len(m)}

\* Handlers are compositions of small operators on the state record, one per
\* statement (or group of statements) of the source, applied in source order.

\* ------------------------------------------------------------------ graph
\* a link that records the edge the wrong way round
linkReversed(S, from, to) ==
  IF Kind(from) = "signal"
  THEN [S EXCEPT !.thrown = "IllegalEdge"]
  ELSE [S EXCEPT !.deps[to] = SetAdd(@, from), !.subs[from] = SetAdd(@, to)]

\* a link that accepts any source
linkUnchecked(S, from, to) ==
  [S EXCEPT !.deps[from] = SetAdd(@, to), !.subs[to] = SetAdd(@, from)]

link(S, from, to) ==
  IF Kind(from) = "signal"
  THEN [S EXCEPT !.thrown = "IllegalEdge"]
  ELSE [S EXCEPT !.deps[from] = SetAdd(@, to), !.subs[to] = SetAdd(@, from)]

\* an unlink that forgets the reverse direction
unlinkOneSided(S, from, to) == [S EXCEPT !.deps[from] = SetDelete(@, to)]

unlink(S, from, to) ==
  [S EXCEPT !.deps[from] = SetDelete(@, to), !.subs[to] = SetDelete(@, from)]

track(S, dep) ==
  IF S.currentObserver = None THEN S ELSE link(S, S.currentObserver, dep)

\* a finally block that clears the observer
clearObserver(S, prev) == [S EXCEPT !.currentObserver = None]

\* withObserver: finally { currentObserver = prev }
restoreObserver(S, prev) == [S EXCEPT !.currentObserver = prev]

\* withObserver: const prev = currentObserver; currentObserver = obs
enterObserver(S, obs) == [S EXCEPT !.currentObserver = obs]

RECURSIVE unlinkAll(_, _, _)
\* for (const d of snapshot) unlink(node, d)
unlinkAll(S, node, snapshot) ==
  IF snapshot = <<>> THEN S
  ELSE unlinkAll(unlink(S, node, Head(snapshot)), node, Tail(snapshot))

\* a node that keeps the dependencies of its previous execution
keepDeps(S, node) == S

\* for (const d of [...node.deps]) unlink(node, d)
unlinkDeps(S, node) == unlinkAll(S, node, S.deps[node])

\* -------------------------------------------------------------- scheduler
\* if (!scheduled && batchDepth === 0) { scheduled = true; queueMicrotask(flushJobs) }
requestFlush(S) ==
  IF ~S.scheduled /\ S.batchDepth = 0
  THEN [S EXCEPT !.scheduled = TRUE, !.microtasks = @ + 1]
  ELSE S

scheduleJob(S, job) ==
  IF S.disposed[job] THEN S
  ELSE IF S.muted > 0 THEN S
  ELSE requestFlush([S EXCEPT !.queue = SetAdd(@, job)])

inAtomic(S) == S.atomicDepth > 0

\* a recordAtomicWrite that overwrites the entry of a node already in the log
recordLastWrite(S, node, prevValue) ==
  IF S.atomicLogs = <<>> THEN S
  ELSE [S EXCEPT !.atomicLogs[Len(S.atomicLogs)] =
          Append(SelectSeq(@, LAMBDA en : en[1] # node), <<node, prevValue>>)]

recordAtomicWrite(S, node, prevValue) ==
  IF S.atomicLogs = <<>> THEN S
  ELSE IF ~MapHas(S.atomicLogs[Len(S.atomicLogs)], node)
  THEN [S EXCEPT !.atomicLogs[Len(S.atomicLogs)] = Append(@, <<node, prevValue>>)]
  ELSE S

RECURSIVE mergeChildIntoParent(_, _)
\* returns the parent log after the merge
mergeChildIntoParent(child, parent) ==
  IF child = <<>> THEN parent
  ELSE mergeChildIntoParent(
         Tail(child),
         IF ~MapHas(parent, Head(child)[1]) THEN Append(parent, Head(child)) ELSE parent)

\* ---------------------------------------------------------------- effects
\* EffectInstance.schedule
schedule(S, e) == scheduleJob(S, e)

\* Effects.get(sub)?.schedule()
scheduleViaRegistry(S, e) == IF e \in S.registry THEN schedule(S, e) ELSE S

\* the cleanup B of the application "throwing" throws when it is called
cleanupThrows(S, cb) == S.prog = "throwing" /\ cb = "B"

\* the cleanup B of the application "disposing" calls the disposer of its effect:
\*   const stop = createEffect(() => { s1.get(); s2.get(); onCleanup(A); return () => stop() })
cleanupDisposes(S, cb) == S.prog = "disposing" /\ cb = "B"

calledCleanup(S, e, cb) ==
  [S EXCEPT !.ran = Append(@, [t |-> "cleanup", e |-> e, seen |-> <<cb>>]),
            !.thrown = IF cleanupThrows(S, cb) THEN "E" ELSE @]

RECURSIVE dispose(_, _)
\* cb?.()
callCleanup(S, e, cb) ==
  IF cleanupDisposes(S, cb) THEN dispose(calledCleanup(S, e, cb), e)
  ELSE calledCleanup(S, e, cb)

\* a cleanup call with no try around it
cleanupUncaught(S, e, cb) == callCleanup(S, e, cb)

\* try { cb?.() } catch (e) { onError?.(e) }   (no caller passes onError)
tryCleanup(S, e, cb) == [callCleanup(S, e, cb) EXCEPT !.thrown = S.thrown]

RECURSIVE drainFrom(_, _, _)
\* the loop of drainCleanups: i runs from list.length - 1 down to 0
\* (list[i] is undefined when a cleanup has emptied the list in the meantime)
drainFrom(S, e, i) ==
  IF i = 0 THEN S
  ELSE drainFrom(IF i <= Len(S.cleanups[e]) THEN tryCleanup(S, e, S.cleanups[e][i]) ELSE S,
                 e, i - 1)

drainCleanups(S, e) ==
  [drainFrom(S, e, Len(S.cleanups[e])) EXCEPT !.cleanups[e] = <<>>]

onCleanup(S, cb) ==
  IF S.activeEffect # None THEN [S EXCEPT !.cleanups[S.activeEffect] = Append(@, cb)] ELSE S

\* --------------------------------------------------------------- computed
RECURSIVE markStale(_, _), markSubs(_, _)
\* an iteration that passes the mark on to computeds and schedules no effect
markSubComputedOnly(S, sub) == IF Kind(sub) = "computed" THEN markStale(S, sub) ELSE S

\* one iteration of the loop over node.subs inside markStale
markSub(S, sub) ==
  IF Kind(sub) = "computed" THEN markStale(S, sub)
  ELSE IF Kind(sub) = "effect" THEN scheduleViaRegistry(S, sub)
  ELSE S

markSubs(S, list) ==
  IF list = <<>> THEN S ELSE markSubs(markSub(S, Head(list)), Tail(list))

\* a markStale that does not pass the mark on to the subscribers of the node
markStaleShallow(S, node) ==
  IF Kind(node) # "computed" THEN S ELSE [S EXCEPT !.stale[node] = TRUE]

markStale(S, node) ==
  IF Kind(node) # "computed" THEN S
  ELSE IF S.stale[node] THEN S
  ELSE markSubs([S EXCEPT !.stale[node] = TRUE], S.subs[node])

\* history: get() of node n was called while S.currentObserver was observing
noteRead(S, n) == [S EXCEPT !.reads = Append(@, <<S.currentObserver, n>>)]

\* signal get(): track(node); return node.value
signalGet(S, s) == [track(noteRead(S, s), s) EXCEPT !.ret = S.value[s]]

RECURSIVE recompute(_, _), computedGet(_, _), computedFn(_, _)
\* The user functions of the two computeds:
\*   c1 = () => s1.get() ? s2.get() : 0        (dynamic dependency on s2)
\*   c2 = () => c1.get() + 1
\* and the c1 of the two other applications:
\*   throwing: c1 = () => { if (s1.get()) throw new Error("E"); return s2.get() }
\*   cyclic:   c1 = () => s1.get() ? c1.get() : c2.get()
c1Branch(S) == IF S.ret # 0 THEN signalGet(S, "s2") ELSE [S EXCEPT !.ret = 0]
c1Throwing(S) == IF S.ret # 0 THEN [S EXCEPT !.thrown = "E"] ELSE signalGet(S, "s2")
c1Cyclic(S) == IF S.ret # 0 THEN computedGet(S, "c1") ELSE computedGet(S, "c2")
c2Result(S) == IF S.thrown # None THEN S ELSE [S EXCEPT !.ret = @ + 1]

c1Fn(S) ==
  CASE S.prog = "throwing" -> c1Throwing(signalGet(S, "s1"))
    [] S.prog = "cyclic" -> c1Cyclic(signalGet(S, "s1"))
    [] OTHER -> c1Branch(signalGet(S, "s1"))

computedFn(S, c) ==
  IF c = "c1" THEN c1Fn(S) ELSE c2Result(computedGet(S, "c1"))

\* const next = withObserver(node, fn): try { return fn() } finally { currentObserver = prev }
withObserverComputed(S, c) ==
  restoreObserver(computedFn([enterObserver(S, c) EXCEPT !.calls = Append(@, c)], c),
                  S.currentObserver)

\* if (!node.hasValue || !node.equals(node.value, next)) { value = next; hasValue = true }
storeNext(S, c) ==
  IF ~S.hasValue[c] \/ S.cval[c] # S.ret
  THEN [S EXCEPT !.cval[c] = S.ret, !.hasValue[c] = TRUE]
  ELSE S

recomputeEnd(S, c) == [S EXCEPT !.stale[c] = FALSE, !.computing[c] = FALSE]

\* the statements of recompute after fn returned; none of them runs when fn threw
recomputeStore(S, c) == IF S.thrown # None THEN S ELSE recomputeEnd(storeNext(S, c), c)

\* a recompute that returns quietly when the node is already computing
recomputeNoCycleCheck(S, c) ==
  IF S.computing[c] THEN S
  ELSE recomputeStore(
         withObserverComputed(unlinkDeps([S EXCEPT !.computing[c] = TRUE], c), c), c)

recompute(S, c) ==
  IF S.computing[c] THEN [S EXCEPT !.thrown = "CycleDetected"]
  ELSE recomputeStore(
         withObserverComputed(unlinkDeps([S EXCEPT !.computing[c] = TRUE], c), c), c)

getAfterTrack(S, c) == IF S.stale[c] \/ ~S.hasValue[c] THEN recompute(S, c) ELSE S
returnValue(S, c) == IF S.thrown # None THEN S ELSE [S EXCEPT !.ret = S.cval[c]]

computedGet(S, c) == returnValue(getAfterTrack(track(noteRead(S, c), c), c), c)

RECURSIVE unlinkSubs(_, _, _)
\* for (const s of snapshot) unlink(s, node)
unlinkSubs(S, node, snapshot) ==
  IF snapshot = <<>> THEN S
  ELSE unlinkSubs(unlink(S, Head(snapshot), node), node, Tail(snapshot))

unlinkAllSubs(S, node) == unlinkSubs(S, node, S.subs[node])

computedDispose(S, c) ==
  [unlinkAllSubs(unlinkDeps(S, c), c)
     EXCEPT !.deps[c] = <<>>, !.subs[c] = <<>>, !.stale[c] = TRUE, !.hasValue[c] = FALSE]

\* ------------------------------------------------------- effect instances
\* The user functions of the two effects:
\*   e1 = () => { const a = s1.get(); const b = s2.get(); onCleanup(A); return B }
\*   e2 = () => { c2.get() }
\* ret is the returned cleanup (None when the body returns nothing); the values
\* the body read are logged in ran.
logRun(S, e, seen, cleanup) ==
  [S EXCEPT !.ran = Append(@, [t |-> "run", e |-> e, seen |-> seen]), !.ret = cleanup]

\* the application "nested" creates e2 inside the body of e1, once:
\*   e1 = () => { const a = s1.get(); if (!inner) inner = createEffect(e2);
\*                const b = s2.get(); onCleanup(A); return B }
RECURSIVE run(_, _), createEffect(_, _)
createInner(S) ==
  IF S.prog = "nested" /\ "e2" \notin S.registry /\ ~S.disposed["e2"]
  THEN createEffect(S, "e2")
  ELSE S

\* the e1 of the application "relay" writes what it read into s2, which e2 reads:
\*   e1 = () => { const a = s1.get(); s2.set(a); onCleanup(A); return B }
\*   e2 = () => { s2.get() }
RECURSIVE signalSet(_, _, _)
\* and the e1 of two applications that write the signal they read:
\*   counting: e1 = () => { const a = s1.get(); if (a < MaxVal) s1.set(a + 1) }
\*   spinning: e1 = () => { const a = s1.get(); s1.set((a + 1) % (MaxVal + 1)) }
e1Second(S, a) ==
  CASE S.prog = "relay" -> signalSet(S, "s2", a)
    [] S.prog = "counting" -> signalSet(S, "s1", IF a < MaxVal THEN a + 1 ELSE a)
    [] S.prog = "spinning" -> signalSet(S, "s1", (a + 1) % (MaxVal + 1))
    [] OTHER -> signalGet(S, "s2")

e1Rest(S, a) == logRun(onCleanup(S, "A"), "e1", <<a, S.ret>>, "B")
e1AfterInner(S, a) == IF S.thrown # None THEN S ELSE e1Rest(e1Second(S, a), a)
e1Body(S) == e1AfterInner(createInner(S), S.ret)
e2Body(S) == IF S.thrown # None THEN S ELSE logRun(S, "e2", <<S.ret>>, None)

\* the e2 of the application "failing" throws while s1 is set:
\*   e2 = () => { if (s1.get()) throw new Error("E") }
e2Failing(S) == IF S.ret # 0 THEN [S EXCEPT !.thrown = "E"] ELSE logRun(S, "e2", <<S.ret>>, None)

e2Fn(S) ==
  CASE S.prog = "failing" -> e2Failing(signalGet(S, "s1"))
    [] S.prog = "relay" -> e2Body(signalGet(S, "s2"))
    [] OTHER -> e2Body(computedGet(S, "c2"))

effectFn(S, e) ==
  IF e = "e1" THEN e1Body(signalGet(S, "s1")) ELSE e2Fn(S)

\* const ret = withObserver(this.node, this.fn)
withObserverEffect(S, e) ==
  restoreObserver(effectFn(enterObserver(S, e), e), S.currentObserver)

\* if (typeof ret === 'function') this.cleanups.push(ret); finally activeEffect = null
runEnd(S, e) ==
  [S EXCEPT !.cleanups[e] = IF S.thrown = None /\ S.ret # None THEN Append(@, S.ret) ELSE @,
            !.activeEffect = None]

setActive(S, e) == [S EXCEPT !.activeEffect = e]

\* a run that forgets to look at this.disposed
runWhenDisposed(S, e) ==
  runEnd(withObserverEffect(setActive(unlinkDeps(drainCleanups(S, e), e), e), e), e)

\* EffectInstance.run
run(S, e) ==
  IF S.disposed[e] THEN S
  ELSE runEnd(withObserverEffect(setActive(unlinkDeps(drainCleanups(S, e), e), e), e), e)

\* a dispose that forgets the loop over node.deps
disposeKeepsEdges(S, e) ==
  IF S.disposed[e] THEN S
  ELSE [drainCleanups([S EXCEPT !.disposed[e] = TRUE], e)
          EXCEPT !.deps[e] = <<>>, !.registry = @ \ {e}]

\* EffectInstance.dispose
dispose(S, e) ==
  IF S.disposed[e] THEN S
  ELSE [unlinkDeps(drainCleanups([S EXCEPT !.disposed[e] = TRUE], e), e)
          EXCEPT !.deps[e] = <<>>, !.registry = @ \ {e}]

\* createEffect: new EffectInstance(fn) registers the node; inst.run()
createEffect(S, e) == run([S EXCEPT !.registry = @ \cup {e}], e)

\* ------------------------------------------------------------- flushJobs
RECURSIVE runList(_, _), flushLoop(_, _)
\* for (const job of list) job.run()
runList(S, list) ==
  IF list = <<>> \/ S.thrown # None THEN S ELSE runList(run(S, Head(list)), Tail(list))

\* if (++guard > 10000) throw new Error("Infinite update loop")
guardCheck(S, guard) ==
  IF S.thrown # None THEN S
  ELSE IF guard > GuardLimit THEN [S EXCEPT !.thrown = "InfiniteUpdateLoop"]
  ELSE flushLoop(S, guard)

\* while (queue.size) { list = Array.from(queue); queue.clear(); ...; ++guard }
flushLoop(S, guard) ==
  IF S.queue = <<>> THEN S
  ELSE guardCheck(runList([S EXCEPT !.queue = <<>>], S.queue), guard + 1)

flushJobs(S) == flushLoop([S EXCEPT !.scheduled = FALSE], 0)

flushSync(S) == IF ~S.scheduled /\ S.queue = <<>> THEN S ELSE flushJobs(S)

\* ------------------------------------------------- atomic: commit, rollback
\* const log = atomicLogs.pop(); atomicDepth--
popLog(S) ==
  [S EXCEPT !.atomicLogs = SubSeq(@, 1, Len(@) - 1),
            !.logOwner = SubSeq(@, 1, Len(@) - 1),
            !.atomicDepth = @ - 1]

\* if (atomicDepth > 0) mergeChildIntoParent(log, atomicLogs[atomicLogs.length - 1])
mergeUp(S, log) ==
  IF S.atomicDepth > 0
  THEN [S EXCEPT !.atomicLogs[Len(S.atomicLogs)] = mergeChildIntoParent(log, @)]
  ELSE S

\* a batch exit that flushes at every depth
leaveBatchAlways(S) == flushJobs(S)
\* batchDepth--; if (batchDepth === 0) flushJobs()
leaveBatch(S) == IF S.batchDepth = 0 THEN flushJobs(S) ELSE S
\* a finally block that forgets batchDepth--
batchExitKeepsDepth(S) == leaveBatch(S)

batchExit(S) == leaveBatch([S EXCEPT !.batchDepth = @ - 1])

\* a commit that flushes at every depth
exitCommitAlwaysFlush(S) ==
  flushJobs([mergeUp(popLog(S), S.atomicLogs[Len(S.atomicLogs)]) EXCEPT !.batchDepth = @ - 1])

\* a commit that leaves the flush to somebody else
exitCommitNoFlush(S) ==
  [mergeUp(popLog(S), S.atomicLogs[Len(S.atomicLogs)]) EXCEPT !.batchDepth = @ - 1]

exitCommit(S) == batchExit(mergeUp(popLog(S), S.atomicLogs[Len(S.atomicLogs)]))

RECURSIVE markComputedSubs(_, _), restoreLog(_, _)
\* for (const sub of node.subs) if (sub.kind === "computed") markStale(sub)
markComputedSubs(S, list) ==
  IF list = <<>> THEN S
  ELSE markComputedSubs(
         IF Kind(Head(list)) = "computed" THEN markStale(S, Head(list)) ELSE S,
         Tail(list))

restoreSubs(S, node) ==
  IF Kind(node) = "signal" THEN markComputedSubs(S, S.subs[node]) ELSE S

\* for (const [node, prev] of log) { writeNodeValue(node, prev); ... }
restoreLog(S, log) ==
  IF log = <<>> THEN S
  ELSE restoreLog(
         restoreSubs([S EXCEPT !.value[Head(log)[1]] = Head(log)[2]], Head(log)[1]),
         Tail(log))

\* queue.clear(); scheduled = false
clearQueue(S) == [S EXCEPT !.queue = <<>>, !.scheduled = FALSE]

\* exitRollback that forgets queue.clear() and scheduled = false
exitRollbackKeepsQueue(S) ==
  [restoreLog([popLog(S) EXCEPT !.muted = @ + 1], S.atomicLogs[Len(S.atomicLogs)])
     EXCEPT !.muted = @ - 1, !.batchDepth = @ - 1]

\* exitRollback when atomicLogs is empty: pop() yields undefined, atomicDepth-- and
\* muted++ run, the for-of over undefined throws a TypeError, finally does
\* muted--, and batchDepth-- is never reached
rollbackNoLog(S) == [S EXCEPT !.atomicDepth = @ - 1, !.thrown = "TypeError"]

rollbackLog(S) ==
  [clearQueue(restoreLog([popLog(S) EXCEPT !.muted = @ + 1], S.atomicLogs[Len(S.atomicLogs)]))
     EXCEPT !.muted = @ - 1, !.batchDepth = @ - 1]

exitRollback(S) == IF S.atomicLogs = <<>> THEN rollbackNoLog(S) ELSE rollbackLog(S)

\* catch (e) { exitRollback(); throw e } around exitCommit(): entered when the
\* flush of the commit threw
catchCommit(S) ==
  IF S.thrown = None THEN S
  ELSE [exitRollback([S EXCEPT !.thrown = None])
          EXCEPT !.thrown = IF @ = None THEN S.thrown ELSE @]

\* atomic(fn) after fn returned a non-promise: exitCommit(); return out
atomicReturn(S) == catchCommit(exitCommit(S))

\* atomic(fn), up to the call of fn
atomicEnter(S, id) ==
  [S EXCEPT !.batchDepth = @ + 1, !.atomicDepth = @ + 1,
            !.atomicLogs = Append(@, <<>>), !.logOwner = Append(@, id)]

\* batch(fn), up to the call of fn
batchEnter(S) == [S EXCEPT !.batchDepth = @ + 1]

\* ------------------------------------ transaction (async transaction lesson)
\* transaction(fn), up to the call of fn
transactionEnter(S) == [S EXCEPT !.batchDepth = @ + 1]

\* batchDepth--; if (batchDepth === 0) flushJobs(): the sync return, the catch
\* block and the finally callback of the promise
transactionLeave(S) == IF S.batchDepth = 0 THEN flushJobs(S) ELSE S
transactionExit(S) == transactionLeave([S EXCEPT !.batchDepth = @ - 1])

\* ------------------------------------------------------------------ signal
RECURSIVE notifySubs(_, _)
\* for (const sub of node.subs): computed -> markStale, effect -> schedule
notifySubs(S, list) ==
  IF list = <<>> THEN S ELSE notifySubs(markSub(S, Head(list)), Tail(list))

\* if (inAtomic()) recordAtomicWrite(node, node.value)
recordIfAtomic(S, s) == IF inAtomic(S) THEN recordAtomicWrite(S, s, S.value[s]) ELSE S

writeAndNotify(S, s, nxtVal) == notifySubs([S EXCEPT !.value[s] = nxtVal], S.subs[s])

\* signal set(next), default equality
set(S, s, nxtVal) ==
  IF S.value[s] = nxtVal THEN S ELSE writeAndNotify(recordIfAtomic(S, s), s, nxtVal)

RECURSIVE scheduleEffects(_, _)
\* for (const sub of node.subs) if (sub.kind === 'effect') Effects.get(sub)?.schedule()
scheduleEffects(S, list) ==
  IF list = <<>> THEN S
  ELSE scheduleEffects(
         IF Kind(Head(list)) = "effect" THEN scheduleViaRegistry(S, Head(list)) ELSE S,
         Tail(list))

\* a set that skips the equals test
signalSetAlways(S, s, nxtVal) == scheduleEffects([S EXCEPT !.value[s] = nxtVal], S.subs[s])

\* signal set(next) of the batch lesson: writes, then schedules the subscribed effects
signalSet(S, s, nxtVal) ==
  IF S.value[s] = nxtVal THEN S
  ELSE scheduleEffects([S EXCEPT !.value[s] = nxtVal], S.subs[s])

\* signal subscribe(observer); the disposer it returns is unlink(observer, node)
subscribe(S, observer, s) ==
  IF Kind(observer) = "signal" THEN [S EXCEPT !.thrown = "IllegalEdge"]
  ELSE link(S, observer, s)

\* withObserver(obs, () => track(dep))
withObserverTrack(S, obs, dep) ==
  restoreObserver(track(enterObserver(S, obs), dep), S.currentObserver)

\* the rest of the outer callback; it is skipped when the inner call threw
trackAfterInner(S, y) == IF S.thrown # None THEN S ELSE track(S, y)

\* withObserver(a, () => { withObserver(b, () => track(x)); track(y) })
withObserverNested(S, a, b, x, y) ==
  restoreObserver(trackAfterInner(withObserverTrack(enterObserver(S, a), b, x), y),
                  S.currentObserver)

\* ---------------------------------------------------------------- initial
\* the operation performed by a step: d = batchDepth and q = the queue when it
\* began, log = the write log a rollback popped (the arguments of a direct
\* recordAtomicWrite), node = the node it was called on, id = the scope that
\* settled
Op(name) ==
  [name |-> name, log |-> <<>>, q |-> queue, d |-> batchDepth, node |-> None, id |-> 0]
OpOn(name, n) == [Op(name) EXCEPT !.node = n]

\* The runtime right after the modules are loaded and the signals and the
\* computeds are created (creating them runs no user function).
Boot ==
  [value |-> [s \in Signals |-> 0], cval |-> [c \in Computeds |-> 0],
   stale |-> [c \in Computeds |-> TRUE], hasValue |-> [c \in Computeds |-> FALSE],
   computing |-> [c \in Computeds |-> FALSE],
   deps |-> [n \in Nodes |-> <<>>], subs |-> [n \in Nodes |-> <<>>],
   currentObserver |-> None, activeEffect |-> None,
   registry |-> {}, cleanups |-> [e \in Effects |-> <<>>],
   disposed |-> [e \in Effects |-> FALSE],
   queue |-> <<>>, scheduled |-> FALSE, batchDepth |-> 0, atomicDepth |-> 0,
   atomicLogs |-> <<>>, muted |-> 0, microtasks |-> 0, logOwner |-> <<>>,
   prog |-> "plain", ran |-> <<>>, thrown |-> None, calls |-> <<>>, reads |-> <<>>,
   ret |-> 0]

\* no job is queued, no flush round has run
NoRound == [start |-> <<>>, pops |-> <<>>, processed |-> 0, fallback |-> FALSE]
TopoIdle ==
  /\ allJobs = <<>>
  /\ tick = 0
  /\ indegree = [j \in Jobs |-> <<>>]
  /\ enq = [j \in Jobs |-> <<>>]
  /\ dependsOn = [j \in Jobs |-> {}]
  /\ round = NoRound

\* jobs with neither kind nor priority, whose run() returns
PlainJobs ==
  /\ jobKind = [j \in Jobs |-> None]
  /\ priority = [j \in Jobs |-> <<>>]
  /\ body = [j \in Jobs |-> "log"]

StartRuntime(S) ==
  /\ value = S.value
  /\ cval = S.cval
  /\ stale = S.stale
  /\ hasValue = S.hasValue
  /\ computing = S.computing
  /\ deps = S.deps
  /\ subs = S.subs
  /\ currentObserver = S.currentObserver
  /\ activeEffect = S.activeEffect
  /\ registry = S.registry
  /\ cleanups = S.cleanups
  /\ disposed = S.disposed
  /\ queue = S.queue
  /\ scheduled = S.scheduled
  /\ batchDepth = S.batchDepth
  /\ atomicDepth = S.atomicDepth
  /\ atomicLogs = S.atomicLogs
  /\ muted = S.muted
  /\ microtasks = S.microtasks
  /\ logOwner = S.logOwner
  /\ ran = <<>>
  /\ thrown = None
  /\ calls = <<>>
  /\ reads = <<>>
  /\ prog = S.prog
  /\ ctx = <<>>
  /\ pending = {}
  /\ op = [name |-> "init", log |-> <<>>, q |-> <<>>, d |-> 0, node |-> None, id |-> 0]
  /\ steps = 0
  /\ guards = <<>>

\* the state after construction of the runtime and of the scheduler
Start(S) ==
  /\ TopoIdle /\ PlainJobs
  /\ StartRuntime(S)

\* nothing but the signals and the computeds exists
InitEmpty == Start(Boot)

\* the applications whose computeds and effects the runtime is driven with
Progs == {"plain", "throwing", "cyclic", "nested"}

\* one of the applications is installed and s1 = signal(v); nothing else exists
InitUser == \E p \in Progs, v \in Vals : Start([Boot EXCEPT !.prog = p, !.value["s1"] = v])

\* the application "failing" has created its two effects while s1 = 0
InitFailing == Start(createEffect(createEffect([Boot EXCEPT !.prog = "failing"], "e1"), "e2"))

\* the application "relay" has created its two effects
InitRelay == Start(createEffect(createEffect([Boot EXCEPT !.prog = "relay"], "e1"), "e2"))

\* the application has created its two effects at top level
Init == Start(createEffect(createEffect(Boot, "e1"), "e2"))

\* ------------------------------------------------------------ environment
\* An open scope of user code.  kind, id: the scope; the rest is history kept for
\* the properties: snap = the signal values when the scope was entered, q0 = the
\* jobs queued when it was entered, ranIn = the effects not queued at entry whose
\* body ran while the scope was open (they were scheduled inside the scope),
\* wrote = a signal was written inside the scope, dirty = an effect body ran
\* inside the scope after such a write, torn = a signal was written inside the
\* scope after that, ws = the signals written by the code of the scope, those
\* of the scopes that returned inside it included, raw = recordAtomicWrite was
\* called directly while the scope was open.  An id is in use as long as its
\* scope is open or a log it pushed is on the stack.
OpenIds == {ctx[i].id : i \in 1..Len(ctx)} \cup {p.id : p \in pending} \cup Range(logOwner)
CanOpen == Cardinality(OpenIds) < MaxScopes
FreshId == CHOOSE i \in 1..MaxScopes : i \notin OpenIds
Top == ctx[Len(ctx)]
Pop == SubSeq(ctx, 1, Len(ctx) - 1)
Frame(kind) ==
  [kind |-> kind, id |-> FreshId, snap |-> value, q0 |-> Range(queue), ranIn |-> {},
   wrote |-> FALSE, dirty |-> FALSE, torn |-> FALSE, ws |-> {}, raw |-> FALSE,
   d0 |-> batchDepth]

RanEffects(events) == {events[i].e : i \in {j \in 1..Len(events) : events[j].t = "run"}}
Wrote(S, o) == o.name = "set" /\ S.value # value
\* what the innermost open scope gains by the step: the signal a set wrote, or
\* the signals of the scope that returned inside it
Gained(S, o) ==
  IF o.name = "set" THEN {s \in Signals : S.value[s] # value[s]}
  ELSE IF o.name \in {"commit", "batchExit"} THEN Top.ws
  ELSE {}
Touch(f, S, o, innermost) ==
  [f EXCEPT !.ranIn = @ \cup (RanEffects(S.ran) \ f.q0),
            !.torn = @ \/ (f.dirty /\ Wrote(S, o)),
            !.wrote = @ \/ Wrote(S, o),
            !.dirty = @ \/ (f.wrote /\ RanEffects(S.ran) # {}),
            !.ws = IF innermost THEN @ \cup Gained(S, o) ELSE @,
            !.raw = @ \/ o.name = "record"]

\* A handler ran to completion and left the runtime in state S; the open scopes
\* are then c (synchronous) and p (awaiting).
Step(S, o, c, p) ==
  /\ steps < MaxSteps
  /\ S.microtasks <= MaxMicro
  /\ Apply(S)
  /\ op' = o
  /\ steps' = steps + 1
  /\ guards' = guards
  /\ ctx' = [i \in 1..Len(c) |-> Touch(c[i], S, o, i = Len(c))]
  /\ pending' = {Touch(f, S, o, FALSE) : f \in p}

\* ---------------------------------------------------------------- actions
Set(s, v) == Step(set(Cur, s, v), Op("set"), ctx, pending)

SignalSet(s, v) == Step(signalSet(Cur, s, v), Op("set"), ctx, pending)

Get(c) == Step(computedGet(Cur, c), OpOn("get", c), ctx, pending)

ComputedDispose(c) ==
  Step(computedDispose(Cur, c), OpOn("computedDispose", c), ctx, pending)

CreateEffect(e) ==
  /\ e \notin registry /\ ~disposed[e]
  /\ Step(createEffect(Cur, e), Op("createEffect"), ctx, pending)

Dispose(e) ==
  /\ e \in registry \/ disposed[e]
  /\ Step(dispose(Cur, e), OpOn("dispose", e), ctx, pending)

Schedule(e) ==
  /\ e \in registry \/ disposed[e]
  /\ Step(schedule(Cur, e), Op("schedule"), ctx, pending)

\* the graph primitives called directly, on a few kinds of edges: from a signal
\* (illegal), onto an effect, and from an effect onto a signal
RawEdges == {<<"s1", "c1">>, <<"c2", "e1">>, <<"e2", "s1">>}

Link(from, to) == Step(link(Cur, from, to), OpOn("link", from), ctx, pending)

Unlink(from, to) == Step(unlink(Cur, from, to), Op("unlink"), ctx, pending)

Track(obs, dep) == Step(withObserverTrack(Cur, obs, dep), OpOn("track", obs), ctx, pending)

Subscribe(obs, s) == Step(subscribe(Cur, obs, s), OpOn("subscribe", obs), ctx, pending)

\* the disposer returned by a subscribe that did not throw
Unsubscribe(obs, s) ==
  /\ Kind(obs) # "signal"
  /\ Step(unlink(Cur, obs, s), Op("unsubscribe"), ctx, pending)

\* recordAtomicWrite called directly, as a signal implementation does
RecordAtomicWrite(n, prev) ==
  Step(recordAtomicWrite(Cur, n, prev),
       [OpOn("record", n) EXCEPT !.log = <<<<n, prev>>>>], ctx, pending)

\* track called with no withObserver active
TrackOutside(dep) == Step(track(Cur, dep), OpOn("trackOutside", dep), ctx, pending)

\* nested withObserver calls: a plain one, one whose inner observer is a signal
\* (the inner track throws) and one that nests an observer in itself
NestedCalls ==
  {<<"e1", "e2", "s2", "s1">>, <<"c2", "s1", "s2", "s1">>, <<"c1", "c1", "s2", "s1">>}

WithObserverNested(a, b, x, y) ==
  Step(withObserverNested(Cur, a, b, x, y),
       [Op("withObserver") EXCEPT !.log = <<a, b, x, y>>], ctx, pending)

MarkStale(c) == Step(markStale(Cur, c), OpOn("markStale", c), ctx, pending)

FlushSync == Step(flushSync(Cur), Op("flushSync"), ctx, pending)

BatchEnter ==
  /\ CanOpen
  /\ Step(batchEnter(Cur), Op("batchEnter"), Append(ctx, Frame("batch")), pending)

\* fn returned or threw: the finally block runs either way
BatchExit(throws) ==
  /\ ctx # <<>> /\ Top.kind = "batch"
  /\ Step([batchExit(Cur) EXCEPT !.thrown = IF @ = None /\ throws THEN "E" ELSE @],
          Op("batchExit"), Pop, pending)

AtomicEnter ==
  /\ CanOpen
  /\ Step(atomicEnter(Cur, FreshId), Op("atomicEnter"), Append(ctx, Frame("atomic")), pending)

\* fn returned a value that is not a promise
AtomicReturn ==
  /\ ctx # <<>> /\ Top.kind = "atomic"
  /\ Step(atomicReturn(Cur), Op("commit"), Pop, pending)

RollbackOp(name) ==
  [Op(name) EXCEPT !.log = IF atomicLogs = <<>> THEN <<>> ELSE atomicLogs[Len(atomicLogs)]]

\* history: the scope whose fn returned a promise
AwaitOp == [Op("await") EXCEPT !.id = Top.id]

\* fn threw synchronously
AtomicThrow ==
  /\ ctx # <<>> /\ Top.kind = "atomic"
  /\ Step([exitRollback(Cur) EXCEPT !.thrown = IF @ = None THEN "E" ELSE @],
          RollbackOp("rollback"), Pop, pending)

\* fn returned a promise: the scope stays open until the promise settles
AtomicAwait ==
  /\ ctx # <<>> /\ Top.kind = "atomic"
  /\ Step(Cur, AwaitOp, Pop, pending \cup {Top})

\* The promise of a pending scope fulfils: (v) => { exitCommit(); return v }.
\* A flush microtask still outstanding was queued before the scope was entered
\* (scheduleJob queues none while batchDepth > 0), so the host runs it first.
AsyncFulfil(p) ==
  /\ ctx = <<>> /\ microtasks = 0
  /\ Step(exitCommit(Cur), [Op("fulfil") EXCEPT !.id = p.id], ctx, pending \ {p})

\* the promise of a pending scope rejects: (err) => { exitRollback(); throw err }
AsyncReject(p) ==
  /\ ctx = <<>> /\ microtasks = 0
  /\ Step([exitRollback(Cur) EXCEPT !.thrown = IF @ = None THEN "E" ELSE @],
          [RollbackOp("reject") EXCEPT !.id = p.id], ctx, pending \ {p})

TransactionEnter ==
  /\ CanOpen
  /\ Step(transactionEnter(Cur), Op("transactionEnter"),
          Append(ctx, Frame("transaction")), pending)

\* fn returned a value that is not a promise
TransactionReturn ==
  /\ ctx # <<>> /\ Top.kind = "transaction"
  /\ Step(transactionExit(Cur), Op("transactionReturn"), Pop, pending)

\* fn threw synchronously
TransactionThrow ==
  /\ ctx # <<>> /\ Top.kind = "transaction"
  /\ Step([transactionExit(Cur) EXCEPT !.thrown = "E"], Op("transactionThrow"), Pop, pending)

\* fn returned a promise
TransactionAwait ==
  /\ ctx # <<>> /\ Top.kind = "transaction"
  /\ Step(Cur, AwaitOp, Pop, pending \cup {Top})

\* The promise settled (fulfilled or rejected): the finally callback runs.  The
\* flush microtasks still outstanding were queued before the scope was entered,
\* and the host runs them first.
TransactionSettle(p) ==
  /\ ctx = <<>> /\ microtasks = 0
  /\ Step(transactionExit(Cur), [Op("settle") EXCEPT !.id = p.id], ctx, pending \ {p})

\* the host runs one queued microtask: flushJobs
Microtask ==
  /\ ctx = <<>> /\ microtasks > 0
  /\ Step(flushJobs([Cur EXCEPT !.microtasks = @ - 1]), Op("microtask"), ctx, pending)

\* ------------------------------------------------------- specifications
\* The scheduler with batch and atomic scopes, driven by an application that has
\* created its effects.
Next ==
  \/ \E s \in Signals, v \in Vals : Set(s, v)
  \/ \E c \in Computeds : Get(c)
  \/ FlushSync
  \/ BatchEnter
  \/ \E throws \in BOOLEAN : BatchExit(throws)
  \/ AtomicEnter
  \/ AtomicReturn
  \/ AtomicThrow
  \/ AtomicAwait
  \/ \E p \in pending : AsyncFulfil(p)
  \/ \E p \in pending : AsyncReject(p)
  \/ Microtask

Spec == Init /\ [][Next]_vars

\* The batch lesson: scheduleJob / batch / flushSync with the signal that
\* schedules its subscribed effects.
NextBatch ==
  \/ \E s \in Signals, v \in Vals : SignalSet(s, v)
  \/ \E e \in Effects : Schedule(e)
  \/ FlushSync
  \/ BatchEnter
  \/ \E throws \in BOOLEAN : BatchExit(throws)
  \/ Microtask

SpecBatch == Init /\ [][NextBatch]_vars

\* The graph and the life cycle of its nodes: effects are created, re-run and
\* disposed, computeds are read, invalidated and disposed, and the graph
\* primitives are called directly.
NextGraph ==
  /\ steps < MaxGraphSteps
  /\ \/ \E e \in Effects : CreateEffect(e)
     \/ \E e \in Effects : Dispose(e)
     \/ \E c \in Computeds : ComputedDispose(c)
     \/ \E c \in Computeds : Get(c)
     \/ \E c \in Computeds : MarkStale(c)
     \/ \E s \in Signals, v \in Vals : SignalSet(s, v)
     \/ \E e \in Effects : Schedule(e)
     \/ Microtask
     \/ \E p \in RawEdges : Link(p[1], p[2])
     \/ \E p \in RawEdges : Unlink(p[1], p[2])
     \/ \E p \in RawEdges : Track(p[1], p[2])
     \/ \E p \in RawEdges : Subscribe(p[1], "s2")
     \/ \E p \in RawEdges : Unsubscribe(p[1], "s2")

SpecGraph == InitEmpty /\ [][NextGraph]_vars

\* Computeds and effects whose user functions throw, read themselves or create
\* other effects: the nodes are created, read, invalidated, re-run and disposed.
NextUser ==
  /\ steps < MaxUserSteps
  /\ \/ \E e \in Effects : CreateEffect(e)
     \/ \E e \in Effects : Dispose(e)
     \/ \E c \in Computeds : ComputedDispose(c)
     \/ \E c \in Computeds : Get(c)
     \/ \E c \in Computeds : MarkStale(c)
     \/ \E s \in Signals, v \in Vals : SignalSet(s, v)
     \/ Microtask
     \/ FlushSync

SpecUser == InitUser /\ [][NextUser]_vars

\* the same under the application whose effect e1 returns a cleanup that
\* disposes e1
InitDisposing ==
  \E v \in Vals : Start([Boot EXCEPT !.prog = "disposing", !.value["s1"] = v])
SpecDisposing == InitDisposing /\ [][NextUser]_vars

\* The computed lesson: lazy computeds under the signal that marks its
\* subscribed computeds stale, with effects reading them.
NextLazy ==
  /\ steps < MaxUserSteps
  /\ \/ \E s \in Signals, v \in Vals : Set(s, v)
     \/ \E c \in Computeds : Get(c)
     \/ \E c \in Computeds : ComputedDispose(c)
     \/ \E e \in Effects : CreateEffect(e)
     \/ Microtask

SpecLazy == InitUser /\ [][NextLazy]_vars

\* The tracking context: withObserver and track called directly and through
\* the computeds and effects of the applications.
NextObserver ==
  /\ steps < MaxUserSteps
  /\ \/ \E e \in Effects : CreateEffect(e)
     \/ \E c \in Computeds : Get(c)
     \/ \E c \in Computeds : MarkStale(c)
     \/ \E p \in RawEdges : Track(p[1], p[2])
     \/ \E n \in Nodes : TrackOutside(n)
     \/ \E p \in NestedCalls : WithObserverNested(p[1], p[2], p[3], p[4])

SpecObserver == InitUser /\ [][NextObserver]_vars

\* The scheduler with batch and atomic scopes under an application one of whose
\* effects throws while s1 is set; the signal is the one that schedules its
\* subscribed effects.
NextFailing ==
  /\ steps < MaxGraphSteps
  /\ \/ \E s \in Signals, v \in Vals : SignalSet(s, v)
     \/ FlushSync
     \/ BatchEnter
     \/ \E throws \in BOOLEAN : BatchExit(throws)
     \/ AtomicEnter
     \/ AtomicReturn
     \/ AtomicThrow
     \/ AtomicAwait
     \/ \E p \in pending : AsyncFulfil(p)
     \/ \E p \in pending : AsyncReject(p)
     \/ Microtask

SpecFailing == InitFailing /\ [][NextFailing]_vars

\* the same scheduler under the application whose effect e1 writes a signal
SpecRelay == InitRelay /\ [][NextFailing]_vars

\* the applications whose effect e1 schedules itself, a few times (counting)
\* or every time it runs (spinning)
LoopProgs == {"counting", "spinning"}
InitLoop ==
  \E p \in LoopProgs, v \in Vals : Start([Boot EXCEPT !.prog = p, !.value["s1"] = v])

\* flushJobs taken one iteration of its while loop at a time.
\* const list = Array.from(queue); queue.clear(); for (const job of list) job.run()
drainList(S) == runList([S EXCEPT !.queue = <<>>], S.queue)

\* a guard that never trips
guardNever(g) == FALSE

\* if (++guard > 10000)
guardTripped(g) == g + 1 > GuardLimit

\* ... throw new Error("Infinite update loop"); an error of a job comes first
afterDrain(S, g) ==
  IF S.thrown = None /\ guardTripped(g) THEN [S EXCEPT !.thrown = "InfiniteUpdateLoop"]
  ELSE S

\* a part of a flushJobs call ran and left the runtime in state S, with the
\* guards g of the calls in progress
LoopStep(S, o, g, n) ==
  /\ Apply(S)
  /\ op' = o
  /\ steps' = steps + n
  /\ ctx' = ctx
  /\ pending' = pending
  /\ guards' = g

\* scheduled = false; let guard = 0
flushStart(S) == [S EXCEPT !.scheduled = FALSE]

\* flushSync(): returns at once when nothing is scheduled or queued
FlushSyncBegin ==
  /\ guards = <<>> /\ steps < MaxUserSteps
  /\ IF ~scheduled /\ queue = <<>> THEN LoopStep(Cur, Op("flushSync"), <<>>, 1)
     ELSE LoopStep(flushStart(Cur), Op("flushSync"), <<0>>, 1)

\* the host runs a flush microtask
MicrotaskBegin ==
  /\ guards = <<>> /\ steps < MaxUserSteps /\ microtasks > 0
  /\ LoopStep(flushStart([Cur EXCEPT !.microtasks = @ - 1]), Op("microtask"), <<0>>, 1)

\* one iteration of while (queue.size): it ends the call when it throws
Drain ==
  /\ guards # <<>> /\ queue # <<>>
  /\ LoopStep(afterDrain(drainList(Cur), guards[1]), Op("drain"),
              IF thrown' # None THEN <<>> ELSE <<guards[1] + 1>>, 0)

\* while (queue.size) finds the queue empty: flushJobs returns
FlushReturn ==
  /\ guards # <<>> /\ queue = <<>>
  /\ LoopStep(Cur, Op("flushReturn"), <<>>, 0)

\* user code runs between the flushes, and inside them only as a job
NextLoop ==
  \/ /\ guards = <<>> /\ steps < MaxUserSteps
     /\ \/ CreateEffect("e1")
        \/ \E v \in Vals : SignalSet("s1", v)
  \/ FlushSyncBegin
  \/ MicrotaskBegin
  \/ Drain
  \/ FlushReturn

SpecLoop == InitLoop /\ [][NextLoop]_vars

\* a flushJobs call in progress is not delayed forever: its next iteration
\* runs, or it returns (while and for are not preempted)
FlushRan == guards # <<>> /\ guards' \in {<<>>, <<guards[1] + 1>>}
SpecLoopFair == SpecLoop /\ WF_guards(FlushRan)

\* ---------------------------------------------------------------------------
\* The topological scheduler.  It replaces the baseline scheduler: scheduled,
\* batchDepth, muted and the host's microtasks play the same part, allJobs is
\* its queue.  A handler takes and returns the record T of what it can change.
GuardLimitTopo == 10000

TCur ==
  [allJobs |-> allJobs, scheduled |-> scheduled, microtasks |-> microtasks,
   tick |-> tick, indegree |-> indegree, enq |-> enq, a |-> <<>>,
   processed |-> 0, fallback |-> FALSE, pops |-> <<>>, ran |-> <<>>,
   thrown |-> None, batchDepth |-> batchDepth, muted |-> muted]

\* x ?? 0
orZero(x) == IF x = <<>> THEN 0 ELSE x[1]

\* if (!scheduled && batchDepth === 0) { scheduled = true; queueMicrotask(flushJobsTopo) }
requestFlushTopo(T) ==
  IF ~T.scheduled /\ T.batchDepth = 0
  THEN [T EXCEPT !.scheduled = TRUE, !.microtasks = @ + 1]
  ELSE T

\* scheduleJob: the jobs are plain Schedulables, which have no disposed field
scheduleJobTopo(T, j) ==
  IF T.muted > 0 THEN T
  ELSE requestFlushTopo([T EXCEPT !.allJobs = SetAdd(@, j)])

\* setJobDeps(job, deps): for (const d of deps) if (d !== job) job.dependsOn.add(d)
setJobDeps(job, ds) == [dependsOn EXCEPT ![job] = @ \cup (ds \ {job})]

\* job.run() of the application: it logs itself, and then returns, throws or
\* schedules a job
runJob(T, j) ==
  CASE body[j] = "throw" -> [T EXCEPT !.ran = Append(@, j), !.thrown = "E"]
    [] body[j] \in Jobs -> scheduleJobTopo([T EXCEPT !.ran = Append(@, j)], body[j])
    [] OTHER -> [T EXCEPT !.ran = Append(@, j)]

\* phaseWeight: (j.kind ?? 'effect') === 'computed' ? 0 : 1
phaseWeight(j) == IF jobKind[j] = "computed" THEN 0 ELSE 1

\* the comparator of the ready heap, E the __enq__ of the jobs
less(E, x, y) ==
  IF phaseWeight(x) # phaseWeight(y) THEN phaseWeight(x) < phaseWeight(y)
  ELSE IF orZero(priority[x]) # orZero(priority[y])
       THEN orZero(priority[x]) < orZero(priority[y])
       ELSE orZero(E[x]) < orZero(E[y])

\* MinHeap on the array a, indices from 0 as in the source
at(a, i) == a[i + 1]
swap(a, i, k) == [a EXCEPT ![i + 1] = a[k + 1], ![k + 1] = a[i + 1]]

RECURSIVE up(_, _, _)
up(E, a, i) ==
  IF i > 0 /\ less(E, at(a, i), at(a, (i - 1) \div 2))
  THEN up(E, swap(a, i, (i - 1) \div 2), (i - 1) \div 2)
  ELSE a

\* down: the smallest of i and its children
smaller(E, a, m, c) == IF c < Len(a) /\ less(E, at(a, c), at(a, m)) THEN c ELSE m
least(E, a, i) == smaller(E, a, smaller(E, a, i, 2 * i + 1), 2 * i + 2)

\* a heap that leaves the moved element at the root
downNone(E, a, i) == a

RECURSIVE down(_, _, _)
down(E, a, i) ==
  IF least(E, a, i) = i THEN a
  ELSE down(E, swap(a, i, least(E, a, i)), least(E, a, i))

heapPush(E, a, v) == up(E, Append(a, v), Len(a))
\* pop: top = a[0]; last = a.pop(); if (n > 1) { a[0] = last; down(0) }
heapPop(E, a) ==
  IF Len(a) > 1
  THEN down(E, [SubSeq(a, 1, Len(a) - 1) EXCEPT ![1] = a[Len(a)]], 0)
  ELSE <<>>

\* a round that takes every queued job for ready
indegreeZero(T) ==
  [T EXCEPT !.indegree =
     [j \in Jobs |-> IF j \in Range(T.allJobs) THEN <<0>> ELSE @[j]]]

\* for (const j of allJobs) j.__indegree__ = 0; then one more for every
\* dependsOn entry that allJobs has
buildIndegree(T) ==
  [T EXCEPT !.indegree =
     [j \in Jobs |-> IF j \in Range(T.allJobs)
                     THEN <<Cardinality(dependsOn[j] \cap Range(T.allJobs))>>
                     ELSE @[j]]]

\* j.__enq__ = tick++; heap.push(j)
pushReady(T, j) ==
  [T EXCEPT !.enq[j] = <<T.tick>>, !.tick = @ + 1,
            !.a = heapPush([T.enq EXCEPT ![j] = <<T.tick>>], @, j)]

\* for (const j of allJobs) if ((j.__indegree__ ?? 0) === 0) push
RECURSIVE pushAllReady(_, _)
pushAllReady(T, list) ==
  IF list = <<>> THEN T
  ELSE pushAllReady(IF orZero(T.indegree[Head(list)]) = 0 THEN pushReady(T, Head(list))
                    ELSE T,
                    Tail(list))

\* k.__indegree__!--, which leaves a missing __indegree__ not a number
decrement(x) == IF x = <<>> THEN <<>> ELSE <<x[1] - 1>>
relaxOne(T, k) ==
  IF decrement(T.indegree[k]) = <<0>>
  THEN pushReady([T EXCEPT !.indegree[k] = <<0>>], k)
  ELSE [T EXCEPT !.indegree[k] = decrement(@)]

\* for (const k of allJobs) if (k.dependsOn?.has(j)) ...
RECURSIVE relax(_, _, _)
relax(T, j, list) ==
  IF list = <<>> THEN T
  ELSE relax(IF j \in dependsOn[Head(list)] THEN relaxOne(T, Head(list)) ELSE T,
             j, Tail(list))

\* const j = heap.pop(); allJobs.delete(j); j.run()
popRun(T) ==
  runJob([T EXCEPT !.a = heapPop(T.enq, @),
                   !.allJobs = SetDelete(@, T.a[1]),
                   !.pops = Append(@, [job |-> T.a[1], ready |-> Range(T.a),
                                       enq |-> T.enq])],
         T.a[1])

\* while (heap.size) { if (++guard > 10000) throw ...; pop, run, processed++, relax }
RECURSIVE heapLoop(_, _)
RECURSIVE afterRun(_, _, _)
heapLoop(T, guard) ==
  IF T.a = <<>> THEN T
  ELSE IF guard + 1 > GuardLimitTopo THEN [T EXCEPT !.thrown = "InfiniteUpdateLoop"]
       ELSE afterRun(popRun(T), T.a[1], guard + 1)
afterRun(T, j, guard) ==
  IF T.thrown # None THEN T
  ELSE heapLoop(relax([T EXCEPT !.processed = @ + 1], j, T.allJobs), guard)

\* for (const j of rest) j.run()
RECURSIVE runRest(_, _)
runRest(T, rest) ==
  IF rest = <<>> \/ T.thrown # None THEN T
  ELSE runRest(runJob(T, Head(rest)), Tail(rest))

\* if (processed === 0 && allJobs.size) { rest = Array.from(allJobs); allJobs.clear(); ... }
fallbackRun(T) ==
  IF T.thrown = None /\ T.processed = 0 /\ T.allJobs # <<>>
  THEN runRest([T EXCEPT !.allJobs = <<>>, !.fallback = TRUE], T.allJobs)
  ELSE T

\* a round that does not ask for the next one
noNextRound(T) == T

\* if (allJobs.size) { scheduled = true; queueMicrotask(flushJobsTopo) }
nextRound(T) ==
  IF T.thrown = None /\ T.allJobs # <<>>
  THEN [T EXCEPT !.scheduled = TRUE, !.microtasks = @ + 1]
  ELSE T

topoRound(T) ==
  nextRound(fallbackRun(heapLoop(pushAllReady(buildIndegree(T), T.allJobs), 0)))

flushJobsTopo(T) ==
  IF T.allJobs = <<>> THEN [T EXCEPT !.scheduled = FALSE]
  ELSE topoRound([T EXCEPT !.scheduled = FALSE])

flushSyncTopo(T) ==
  IF ~T.scheduled /\ T.allJobs = <<>> THEN T ELSE flushJobsTopo(T)

\* a call of the scheduler's API left the scheduler in state T
TopoApply(T, o, d, n) ==
  /\ T.microtasks <= MaxMicro
  /\ allJobs' = T.allJobs
  /\ scheduled' = T.scheduled
  /\ microtasks' = T.microtasks
  /\ tick' = T.tick
  /\ indegree' = T.indegree
  /\ enq' = T.enq
  /\ ran' = T.ran
  /\ thrown' = T.thrown
  /\ round' = IF o.name \in {"flushSync", "microtask"}
              THEN [start |-> allJobs, pops |-> T.pops, processed |-> T.processed,
                    fallback |-> T.fallback]
              ELSE round
  /\ dependsOn' = d
  /\ op' = o
  /\ steps' = steps + n
  /\ UNCHANGED <<value, cval, stale, hasValue, computing, deps, subs,
                 currentObserver, activeEffect, registry, cleanups, disposed,
                 queue, batchDepth, atomicDepth, atomicLogs, muted, ctx, pending,
                 logOwner, prog, calls, reads, guards, jobVars>>

TopoStep(T, o, d) == TopoApply(T, o, d, 1)

ScheduleJobTopo(j) == TopoStep(scheduleJobTopo(TCur, j), OpOn("scheduleJob", j), dependsOn)
SetJobDeps(j, ds) == TopoStep(TCur, OpOn("setJobDeps", j), setJobDeps(j, ds))
FlushSyncTopo == TopoStep(flushSyncTopo(TCur), Op("flushSync"), dependsOn)
MicrotaskTopo ==
  /\ microtasks > 0
  /\ TopoStep(flushJobsTopo([TCur EXCEPT !.microtasks = @ - 1]), Op("microtask"), dependsOn)

\* the scheduler in use once the application has registered its jobs
TopoCalls ==
  \/ \E j \in Jobs : ScheduleJobTopo(j)
  \/ FlushSyncTopo
  \/ MicrotaskTopo
NextTopo == steps < MaxCalls /\ TopoCalls

\* The applications.  Each one declares the dependencies gs[j] of its jobs with
\* setJobDeps and then schedules the jobs of order, outside any batch.
TIdle ==
  [allJobs |-> <<>>, scheduled |-> FALSE, microtasks |-> 0, tick |-> 0,
   indegree |-> [j \in Jobs |-> <<>>], enq |-> [j \in Jobs |-> <<>>], a |-> <<>>,
   processed |-> 0, fallback |-> FALSE, pops |-> <<>>, ran |-> <<>>,
   thrown |-> None, batchDepth |-> 0, muted |-> 0]

RECURSIVE scheduleAll(_, _)
scheduleAll(T, order) ==
  IF order = <<>> THEN T ELSE scheduleAll(scheduleJobTopo(T, Head(order)), Tail(order))

Orders ==
  {q \in UNION {[1..n -> Jobs] : n \in 0..Cardinality(Jobs)} :
     \A i, k \in 1..Len(q) : q[i] = q[k] => i = k}
Graphs == [Jobs -> SUBSET Jobs]

Registered(order, gs) ==
  /\ StartRuntime([Boot EXCEPT !.scheduled = scheduleAll(TIdle, order).scheduled,
                               !.microtasks = scheduleAll(TIdle, order).microtasks])
  /\ allJobs = scheduleAll(TIdle, order).allJobs
  /\ tick = 0
  /\ indegree = [j \in Jobs |-> <<>>]
  /\ enq = [j \in Jobs |-> <<>>]
  /\ dependsOn = [j \in Jobs |-> gs[j] \ {j}]
  /\ round = NoRound

\* jobs of any kind and priority beside j3, few dependencies; or jobs with or
\* without kind and any dependencies; run() returns
Kinds == {"computed", "effect", None}
Priorities == {<<>>, <<0 - 1>>, <<1>>}
FewDeps == {gs \in Graphs : Cardinality(UNION {gs[j] : j \in Jobs}) <= 1
                            /\ Cardinality({j \in Jobs : gs[j] # {}}) <= 1}
InitOrder ==
  /\ \E order \in Orders :
       \/ /\ \E gs \in FewDeps : Registered(order, gs)
          /\ jobKind \in {f \in [Jobs -> Kinds] : f["j3"] = None}
          /\ priority \in {f \in [Jobs -> Priorities] : f["j3"] = <<>>}
       \/ /\ \E gs \in Graphs : Registered(order, gs)
          /\ jobKind \in [Jobs -> {"computed", None}]
          /\ priority = [j \in Jobs |-> <<>>]
  /\ body = [j \in Jobs |-> "log"]
SpecOrder == InitOrder /\ [][NextTopo]_vars

\* jobs with neither kind nor priority, whose run() returns, throws or
\* schedules a job; j3 returns and depends on no job
Bodies == {"log", "throw"} \cup Jobs
InitTopo ==
  /\ \E order \in Orders, gs \in {g \in Graphs : g["j3"] = {}} : Registered(order, gs)
  /\ jobKind = [j \in Jobs |-> None]
  /\ priority = [j \in Jobs |-> <<>>]
  /\ body \in {f \in [Jobs -> Bodies] : f["j3"] = "log"}
SpecTopo == InitTopo /\ [][NextTopo]_vars

\* The scheduler with dependencies declared late, under applications whose
\* jobs return.  Once the application makes no further call, the host still
\* runs the flush microtasks that are outstanding.
HostTopo ==
  /\ steps >= MaxCalls /\ microtasks > 0
  /\ TopoApply(flushJobsTopo([TCur EXCEPT !.microtasks = @ - 1]), Op("microtask"),
               dependsOn, 0)
NextCycle ==
  \/ NextTopo
  \/ steps < MaxCalls /\ \E j, d \in Jobs : SetJobDeps(j, {d})
  \/ HostTopo
InitCycle ==
  /\ \E order \in Orders, gs \in {g \in Graphs : g["j3"] = {}} : Registered(order, gs)
  /\ PlainJobs

\* the host runs an outstanding flush microtask
HostRanTopo ==
  /\ microtasks > 0 /\ op' = Op("microtask")
  /\ microtasks' \in {microtasks - 1, microtasks}
SpecCycle == InitCycle /\ [][NextCycle]_vars /\ WF_<<op, microtasks>>(HostRanTopo)

\* the application whose jobs j1 and j2 depend on each other, j1 also on j3,
\* and whose j3 schedules j1 when it runs
InitAgain ==
  /\ Registered(<<"j1", "j2">>, [j \in Jobs |-> CASE j = "j1" -> {"j2", "j3"}
                                                 [] j = "j2" -> {"j1"}
                                                 [] OTHER -> {}])
  /\ jobKind = [j \in Jobs |-> None]
  /\ priority = [j \in Jobs |-> <<>>]
  /\ body = [j \in Jobs |-> IF j = "j3" THEN "j1" ELSE "log"]
NextAgain == steps < MaxGraphSteps /\ TopoCalls
SpecAgain == InitAgain /\ [][NextAgain]_vars


\* Lazy computeds under atomic scopes: the signal that marks its subscribed
\* computeds stale, get and dispose of the computeds, and scopes that commit or
\* roll back.
NextCoherent ==
  \/ \E s \in Signals, v \in Vals : Set(s, v)
  \/ \E c \in Computeds : Get(c)
  \/ \E c \in Computeds : ComputedDispose(c)
  \/ AtomicEnter
  \/ AtomicReturn
  \/ AtomicThrow
  \/ Microtask

SpecCoherent == Init /\ [][NextCoherent]_vars

\* markStale called on any node, among computed reads and atomic scopes that
\* commit or roll back (a rollback empties the queue).
NextStale ==
  /\ steps < MaxGraphSteps
  /\ \/ \E n \in Nodes : MarkStale(n)
     \/ \E c \in Computeds : Get(c)
     \/ AtomicEnter
     \/ AtomicReturn
     \/ AtomicThrow
     \/ Microtask

SpecStale == Init /\ [][NextStale]_vars

\* Once the application starts nothing new (the step bound), what it has open
\* still ends: a handler ran to completion and left the runtime in state S.
Finish(S, o, c, p) ==
  /\ steps >= MaxGraphSteps
  /\ Apply(S)
  /\ op' = o
  /\ steps' = steps
  /\ guards' = guards
  /\ ctx' = [i \in 1..Len(c) |-> Touch(c[i], S, o, i = Len(c))]
  /\ pending' = {Touch(f, S, o, FALSE) : f \in p}

\* fn of the innermost open scope returns, throws or returns a promise
ScopeEnds ==
  /\ ctx # <<>>
  /\ \/ /\ Top.kind = "batch"
        /\ \E throws \in BOOLEAN :
             Finish([batchExit(Cur) EXCEPT !.thrown = IF @ = None /\ throws THEN "E" ELSE @],
                    Op("batchExit"), Pop, pending)
     \/ /\ Top.kind = "atomic"
        /\ \/ Finish(atomicReturn(Cur), Op("commit"), Pop, pending)
           \/ Finish([exitRollback(Cur) EXCEPT !.thrown = IF @ = None THEN "E" ELSE @],
                     RollbackOp("rollback"), Pop, pending)
           \/ Finish(Cur, AwaitOp, Pop, pending \cup {Top})

\* the promise of a pending scope settles
PromiseSettles ==
  /\ ctx = <<>> /\ microtasks = 0
  /\ \E p \in pending :
       \/ Finish(exitCommit(Cur), [Op("fulfil") EXCEPT !.id = p.id], ctx, pending \ {p})
       \/ Finish([exitRollback(Cur) EXCEPT !.thrown = IF @ = None THEN "E" ELSE @],
                 [RollbackOp("reject") EXCEPT !.id = p.id], ctx, pending \ {p})

\* the host runs a flush microtask that is still outstanding
HostDrains ==
  /\ ctx = <<>> /\ microtasks > 0
  /\ Finish(flushJobs([Cur EXCEPT !.microtasks = @ - 1]), Op("microtask"), ctx, pending)

NextLive == NextFailing \/ ScopeEnds \/ PromiseSettles \/ HostDrains

\* What the host and the language guarantee: a function that was called
\* returns or throws, a promise that is awaited settles, and a microtask that
\* was queued runs once the call stack is empty.
Returns ==
  \/ /\ steps < MaxGraphSteps
     /\ \/ \E throws \in BOOLEAN : BatchExit(throws)
        \/ AtomicReturn \/ AtomicThrow \/ AtomicAwait
  \/ ScopeEnds
Settles ==
  \/ /\ steps < MaxGraphSteps
     /\ \E p \in pending : AsyncFulfil(p) \/ AsyncReject(p)
  \/ PromiseSettles
HostRuns == (steps < MaxGraphSteps /\ Microtask) \/ HostDrains

\* the states in which a step of Returns, of Settles, of HostRuns can be taken
CanReturn == ctx # <<>>
CanSettle == ctx = <<>> /\ microtasks = 0 /\ pending # {}
CanDrain == ctx = <<>> /\ microtasks > 0

\* The same three actions told by what they record: op names the operation of
\* a step and microtasks counts the flush microtasks outstanding.
ReturnOps ==
  IF Top.kind = "batch" THEN {Op("batchExit")}
  ELSE {Op("commit"), RollbackOp("rollback"), AwaitOp}
SettleOps ==
  {[Op("fulfil") EXCEPT !.id = p.id] : p \in pending}
    \cup {[RollbackOp("reject") EXCEPT !.id = p.id] : p \in pending}
Returned == CanReturn /\ op' \in ReturnOps
Settled == CanSettle /\ op' \in SettleOps
HostRan == CanDrain /\ op' = Op("microtask") /\ microtasks' = microtasks - 1

\* the steps of Returned, Settled and HostRan that change what they record are
\* the steps of Returns, Settles and HostRuns
FairActions ==
  /\ [][(Returned /\ op' # op) <=> Returns]_vars
  /\ [][(Settled /\ op' # op) <=> Settles]_vars
  /\ [][(HostRan /\ <<op, microtasks>>' # <<op, microtasks>>) <=> HostRuns]_vars

\* The scheduler with batch and atomic scopes under the application of Init,
\* with weak fairness of fn returning, of promises settling and of the host
\* running its microtasks.
SpecLive ==
  /\ Init /\ [][NextLive]_vars
  /\ WF_op(Returned) /\ WF_op(Settled) /\ WF_<<op, microtasks>>(HostRan)

\* The async transaction lesson: scheduleJob / transaction / flushSync with the
\* signal that schedules its subscribed effects.
NextTransaction ==
  \/ \E s \in Signals, v \in Vals : SignalSet(s, v)
  \/ \E e \in Effects : Schedule(e)
  \/ FlushSync
  \/ TransactionEnter
  \/ TransactionReturn
  \/ TransactionThrow
  \/ TransactionAwait
  \/ \E p \in pending : TransactionSettle(p)
  \/ Microtask

SpecTransaction == Init /\ [][NextTransaction]_vars

\* The write logs: atomic scopes, signal writes, and recordAtomicWrite called
\* directly with any previous value.
NextLog ==
  \/ \E s \in Signals, v \in Vals : Set(s, v)
  \/ \E s \in Signals, v \in Vals : RecordAtomicWrite(s, v)
  \/ AtomicEnter
  \/ AtomicReturn
  \/ AtomicThrow
  \/ AtomicAwait
  \/ \E p \in pending : AsyncFulfil(p)
  \/ \E p \in pending : AsyncReject(p)
  \/ Microtask

SpecLog == Init /\ [][NextLog]_vars

\* ================================================================== claims
\* every entry (node, prev) of a write log is restored in the next state
Restored(log) == \A k \in 1..Len(log) : value'[log[k][1]] = log[k][2]
TopLog == atomicLogs[Len(atomicLogs)]
\* the log pushed by the scope with this id
OwnLogs(id) == {i \in 1..Len(logOwner) : logOwner[i] = id}

Runs(events, e) ==
  Cardinality({i \in 1..Len(events) : events[i].t = "run" /\ events[i].e = e})

\* the step ran the body of each queued effect exactly once and of no other
FlushedOnce ==
  \A e \in Effects :
    Runs(ran', e) = IF e \in Range(queue) /\ ~disposed[e] THEN 1 ELSE 0

\* every body of e1 executed by the step read the values the signals have now
ReadsLast ==
  \A i \in 1..Len(ran') :
    (ran'[i].t = "run" /\ ran'[i].e = "e1") => ran'[i].seen = <<value'["s1"], value'["s2"]>>

\* C2: a signal write outside any batch runs no effect body synchronously; it
\* leaves each subscribed effect queued once with a flush microtask outstanding;
\* the microtask flush runs the body of each queued effect exactly once, however
\* many writes queued it, and that run reads the last written value of each
\* signal.
C2_Coalescing ==
  [][/\ (op'.name = "set" /\ ctx = <<>> =>
           /\ ran' = <<>>
           /\ Cardinality(Range(queue')) = Len(queue')
           /\ (queue' # <<>> => scheduled' /\ microtasks' > 0))
     /\ (op'.name = "microtask" => FlushedOnce /\ ReadsLast /\ queue' = <<>>)]_vars

\* two signals read by e1 were set in one burst; the one microtask then ran e1
\* once, reading both new values
C2_Witness ==
  /\ op.name = "microtask" /\ steps = 3 /\ microtasks = 0
  /\ value["s1"] = 1 /\ value["s2"] = 1
  /\ Runs(ran, "e1") = 1 /\ Runs(ran, "e2") = 0
  /\ ran[Len(ran)] = [t |-> "run", e |-> "e1", seen |-> <<1, 1>>]

\* C3 (as stated): no job scheduled inside a batch runs while a batch is open,
\* no microtask is queued inside a batch, the exit of the outermost batch runs
\* each queued job exactly once and an inner exit runs nothing, and a microtask
\* turn runs only what is queued then.
C3_AsStated ==
  [][/\ \A i \in 1..Len(ctx') : ctx'[i].ranIn = {}
     /\ (batchDepth > 0 \/ batchDepth' > 0 => microtasks' = microtasks)
     /\ (op'.name = "batchExit" =>
           IF batchDepth = 1 THEN FlushedOnce /\ queue' = <<>> /\ ~scheduled'
           ELSE ran' = <<>> /\ queue' = queue)
     /\ (op'.name = "microtask" => FlushedOnce)]_vars

\* C3 (amended): inside a batch only flushSync() runs jobs; every other step
\* that ends inside a batch runs nothing; no microtask is queued inside a batch;
\* the exit of the outermost batch runs each job still queued exactly once,
\* synchronously, and an inner exit runs nothing; a microtask turn runs only
\* what is queued then.
C3_Batch ==
  [][/\ (ctx' # <<>> /\ op'.name # "flushSync" => ran' = <<>>)
     /\ (batchDepth > 0 \/ batchDepth' > 0 => microtasks' = microtasks)
     /\ (op'.name = "batchExit" =>
           IF batchDepth = 1 THEN FlushedOnce /\ queue' = <<>> /\ ~scheduled'
           ELSE ran' = <<>> /\ queue' = queue)
     /\ (op'.name = "microtask" => FlushedOnce)]_vars

\* the outermost batch exit ran the jobs scheduled inside the batch, and no
\* microtask was ever queued
C3_Witness ==
  /\ op.name = "batchExit" /\ op.d = 1 /\ Len(op.q) = 2
  /\ ctx = <<>> /\ microtasks = 0 /\ steps = 5
  /\ Len(ran) >= 2

\* ---------------------------------------------------------------- C4
\* every body of e2 executed by the step read c2 = (s1 ? s2 : 0) + 1 of the
\* values the signals have now
ReadsLastComputed ==
  \A i \in 1..Len(ran') :
    (ran'[i].t = "run" /\ ran'[i].e = "e2") =>
      ran'[i].seen = <<(IF value'["s1"] # 0 THEN value'["s2"] ELSE 0) + 1>>

\* C4 (as stated): in no open batch or atomic scope has an effect body executed
\* between two signal writes made inside the scope.
C4_AsStated == \A i \in 1..Len(ctx) : ~ctx[i].torn

\* C4 (amended): while a batch or atomic scope is open on the call stack, no
\* step other than flushSync() executes an effect body, so effect runs caused by
\* the writes of the scope happen at or after the exit of the outermost scope;
\* every effect body that runs reads the values the signals have at that time.
C4_NoTearing ==
  [][/\ (ctx' # <<>> /\ op'.name # "flushSync" => ran' = <<>>)
     /\ ReadsLast /\ ReadsLastComputed]_vars

\* a scope wrote both signals and its exit then ran e1 and e2 once each on the
\* final values
C4_Witness ==
  /\ op.name \in {"batchExit", "commit"} /\ op.d = 1 /\ steps = 4 /\ ctx = <<>>
  /\ value["s1"] = 1 /\ value["s2"] = 1
  /\ Runs(ran, "e1") = 1 /\ Runs(ran, "e2") = 1
  /\ \E i \in 1..Len(ran) : ran[i] = [t |-> "run", e |-> "e1", seen |-> <<1, 1>>]
  /\ \E i \in 1..Len(ran) : ran[i] = [t |-> "run", e |-> "e2", seen |-> <<2>>]

\* ----------------------------------------------------------- C5, C10
InDeps(u, v) == u \in Range(deps[v])
InSubs(v, u) == v \in Range(subs[u])

\* C5: in every state reachable through link, unlink, track, subscribe /
\* unsubscribe, computed get / recompute / dispose and effect run / dispose, u is
\* in v.deps exactly when v is in u.subs.
C5_EdgeSymmetry == \A u \in Nodes, v \in Nodes : InDeps(u, v) <=> InSubs(v, u)

\* c1 was disposed while c2 read it and e2 read c2: the edges of c1 are gone in
\* both directions and the edge e2 -> c2 is still there in both directions
C5_Witness ==
  /\ op.name = "computedDispose" /\ op.node = "c1"
  /\ deps["c1"] = <<>> /\ subs["c1"] = <<>> /\ deps["c2"] = <<>> /\ subs["s1"] = <<>>
  /\ deps["e2"] = <<"c2">> /\ subs["c2"] = <<"e2">>

\* the node is in no other node's deps or subs (next state)
Detached(n) ==
  \A m \in Nodes \ {n} : n \notin Range(deps'[m]) /\ n \notin Range(subs'[m])

\* C10 (as stated): after dispose() of an effect or of a computed, the node's
\* deps are empty (for a computed also its subs) and no other node contains it
\* in its deps or subs.
C10_AsStated ==
  [][/\ (op'.name = "dispose" => deps'[op'.node] = <<>> /\ Detached(op'.node))
     /\ (op'.name = "computedDispose" =>
           deps'[op'.node] = <<>> /\ subs'[op'.node] = <<>> /\ Detached(op'.node))]_vars

\* C10 (amended): after dispose() of a computed, its deps and subs are empty and
\* no other node contains it in its deps or subs; after the first dispose() of
\* an effect, its deps are empty and no other node contains it in its subs,
\* while the effect's own subs are left as they were, so a node that was linked
\* onto the effect still has it in its deps; a later dispose() of the same
\* effect changes no edge and runs nothing.
C10_Dispose ==
  [][/\ (op'.name = "dispose" /\ disposed[op'.node] =>
           deps' = deps /\ subs' = subs /\ ran' = <<>>)
     /\ (op'.name = "dispose" /\ ~disposed[op'.node] =>
           /\ deps'[op'.node] = <<>>
           /\ \A m \in Nodes : op'.node \notin Range(subs'[m])
           /\ subs'[op'.node] = subs[op'.node]
           /\ \A m \in Nodes : (op'.node \in Range(deps'[m])) <=> (m \in Range(subs[op'.node])))
     /\ (op'.name = "computedDispose" =>
           deps'[op'.node] = <<>> /\ subs'[op'.node] = <<>> /\ Detached(op'.node))]_vars

\* e1 was disposed while it read s1 and s2
C10_Witness ==
  /\ op.name = "dispose" /\ op.node = "e1" /\ disposed["e1"]
  /\ Len(ran) = 2 /\ deps["e1"] = <<>> /\ subs["s1"] = <<>> /\ subs["s2"] = <<>>

\* ---------------------------------------------------------------- C7
IsPrefix(a, b) == Len(a) <= Len(b) /\ SubSeq(b, 1, Len(a)) = a

\* the logs that stay on the stack keep every entry they have
LogsKeepEntries ==
  \A i \in 1..Len(atomicLogs) :
    (i <= Len(atomicLogs') /\ logOwner'[i] = logOwner[i]) =>
      IsPrefix(atomicLogs[i], atomicLogs'[i])

\* what recordAtomicWrite(node, prev) does to the stack of logs
Recorded(node, prev) ==
  IF atomicLogs = <<>> THEN atomicLogs' = <<>>
  ELSE IF MapHas(TopLog, node) THEN atomicLogs' = atomicLogs
  ELSE atomicLogs' = [atomicLogs EXCEPT ![Len(atomicLogs)] = Append(@, <<node, prev>>)]

\* the open atomic scopes
AtomicFrames(c, p) == {c[i] : i \in {j \in 1..Len(c) : c[j].kind = "atomic"}} \cup p

\* every entry of the log of scope f holds the value the node had when f began
HoldsStartValues(f, logs, owners) ==
  \A i \in {j \in 1..Len(owners) : owners[j] = f.id} :
    \A k \in 1..Len(logs[i]) : logs[i][k][2] = f.snap[logs[i][k][1]]

\* C7: recordAtomicWrite(node, prev) adds (node, prev) to the log on top of the
\* stack only if that log has no entry for the node, and does nothing when no
\* log is open; no step changes an entry a log has; a value-changing set inside
\* an atomic scope records the value before the write only for the first write
\* of the node; so the log of every open scope (none having seen a direct call
\* with an arbitrary value) maps each node to its value at the start of the scope.
C7_FirstWriteWins ==
  [][/\ LogsKeepEntries
     /\ (op'.name = "record" =>
           /\ Recorded(op'.node, op'.log[1][2])
           /\ value' = value /\ queue' = queue /\ ran' = <<>>)
     /\ (op'.name = "set" /\ value' # value =>
           \E s \in Signals : value'[s] # value[s] /\ Recorded(s, value[s]))
     /\ \A f \in AtomicFrames(ctx', pending') :
           ~f.raw => HoldsStartValues(f, atomicLogs', logOwner')]_vars

\* s1 was written twice inside one atomic scope (0 -> 1 -> 0): the log still maps
\* it to 0, its value at the start of the scope
C7_Witness ==
  /\ op.name = "set" /\ steps = 3 /\ Len(ctx) = 1
  /\ atomicLogs = << << <<"s1", 0>> >> >>
  /\ value["s1"] = 0 /\ queue # <<>>

\* ------------------------------------------------------------ C6, C8
\* the atomic scopes enclosing the innermost one on the call stack
EnclosingAtomic == {i \in 1..(Len(ctx) - 1) : ctx[i].kind = "atomic"}
Outer == ctx[CHOOSE i \in EnclosingAtomic : \A k \in EnclosingAtomic : k <= i]
HasLog(id, owners) == \E i \in 1..Len(owners) : owners[i] = id
LogOf(id, logs, owners) == logs[CHOOSE i \in 1..Len(owners) : owners[i] = id]

\* merged is parent with the nodes of child it lacked, each with child's value
MergedFirstSeen(child, parent, merged) ==
  /\ IsPrefix(parent, merged)
  /\ MapKeys(merged) = MapKeys(parent) \cup MapKeys(child)
  /\ \A n \in MapKeys(child) \ MapKeys(parent) : MapGet(merged, n) = MapGet(child, n)

\* C6 (as stated): when an inner atomic scope commits inside an outer atomic
\* scope, the log of the outer scope becomes its old entries plus the nodes of
\* the inner log it lacked, with the inner's previous values; and when an atomic
\* scope rolls back, every signal written in it or in a scope that committed
\* inside it has the value it had when the scope was entered.
C6_AsStated ==
  [][/\ (op'.name = "commit" /\ EnclosingAtomic # {} =>
           /\ HasLog(Top.id, logOwner) /\ HasLog(Outer.id, logOwner)
           /\ HasLog(Outer.id, logOwner')
           /\ MergedFirstSeen(LogOf(Top.id, atomicLogs, logOwner),
                              LogOf(Outer.id, atomicLogs, logOwner),
                              LogOf(Outer.id, atomicLogs', logOwner')))
     /\ (op'.name = "rollback" => \A s \in Top.ws : value'[s] = Top.snap[s])]_vars

\* C8 (as stated): while an async atomic scope is pending batchDepth and
\* atomicDepth stay incremented and its log stays on the stack; when its promise
\* fulfils the written values are kept and nothing is thrown; when it rejects
\* every node recorded in its log is restored to the recorded previous value and
\* the error is rethrown.
C8_AsStated ==
  [][/\ \A p \in pending' :
           batchDepth' > 0 /\ atomicDepth' > 0 /\ HasLog(p.id, logOwner')
     /\ (op'.name = "fulfil" =>
           HasLog(op'.id, logOwner) /\ ~HasLog(op'.id, logOwner')
           /\ value' = value /\ thrown' = None)
     /\ (op'.name = "reject" =>
           /\ HasLog(op'.id, logOwner) /\ ~HasLog(op'.id, logOwner')
           /\ Restored(LogOf(op'.id, atomicLogs, logOwner))
           /\ thrown' = "E")]_vars

\* ---------------------------------------------------------------- C9
\* C9 (as stated): no step that leaves an async transaction pending runs a job;
\* when the last pending scope settles, no job scheduled inside it has run
\* before, and each queued job runs exactly once.
C9_AsStated ==
  [][/\ (pending' # {} => ran' = <<>>)
     /\ (op'.name = "settle" /\ batchDepth = 1 =>
           /\ \A p \in pending : p.ranIn = {}
           /\ FlushedOnce /\ queue' = <<>>)]_vars

\* ---------------------------------------------------------------- C11
\* the events of e (body executions and cleanups) in a list of events
EventsOf(events, e) == {i \in 1..Len(events) : events[i].e = e}

C12_AsStated ==
  [][op'.name = "get" /\ prog = "throwing" =>
       /\ thrown' \in {None, "E"}
       /\ (thrown' = "E" => stale'[op'.node] /\ ~computing'[op'.node])]_vars

\* ---------------------------------------------------------------- C13
NoRepeat(q) == Cardinality(Range(q)) = Len(q)

\* C13: in the application whose computeds read themselves (c1 reads c1 when s1
\* is set, and c1 and c2 read each other otherwise), every get() throws the
\* cycle error, and no function is entered twice by one read.
C13_CycleDetected ==
  [][op'.name = "get" /\ prog = "cyclic" =>
       thrown' = "CycleDetected" /\ NoRepeat(calls')]_vars

\* the read of c1 ran c1, which read c2, whose recompute read c1 again
C13_Witness ==
  /\ prog = "cyclic" /\ op.name = "get" /\ op.node = "c1" /\ value["s1"] = 0
  /\ calls = <<"c1", "c2">> /\ thrown = "CycleDetected"

\* ---------------------------------------------------------------- C14
Invoked(c) == c \in Range(calls')
NeedsRecompute(c) == stale[c] \/ ~hasValue[c]
ValueChanged == {s \in Signals : value'[s] # value[s]}

NotYetComputed == \A c \in Computeds : ~hasValue[c] /\ calls = <<>>

GetCallsFnIffStale ==
  op'.name = "get" /\ prog # "cyclic" => (Invoked(op'.node) <=> NeedsRecompute(op'.node))

\* C14: no fn has run when the computeds have just been created, and in an
\* application without cycles a get() calls the fn of its computed exactly when
\* the computed has not been computed yet or was marked stale since its last
\* recompute.
C14_AsStated == (steps = 0 => NotYetComputed) /\ [][GetCallsFnIffStale]_vars

LazyStep(c) ==
  /\ (op'.name = "get" /\ op'.node = c => (Invoked(c) <=> NeedsRecompute(c)))
  /\ (Invoked(c) => ~stale'[c] /\ hasValue'[c])
  /\ (~NeedsRecompute(c) /\ stale'[c] =>
        \/ op'.name = "set" /\ ValueChanged # {}
        \/ op'.name = "computedDispose" /\ op'.node = c)
  /\ (~NeedsRecompute(c) /\ Range(deps[c]) \cap ValueChanged # {} => stale'[c])
  /\ (op'.name = "computedDispose" /\ op'.node = c => stale'[c] /\ ~hasValue'[c])

\* The same for the applications whose functions do not throw, with what marks a
\* computed stale: a set that changes one of its sources, or its dispose; a
\* recompute clears the mark, so a second read in a row calls nothing.
C14_Lazy ==
  (steps = 0 => NotYetComputed)
    /\ [][\A c \in Computeds : prog \in {"plain", "nested"} => LazyStep(c)]_vars

\* c1 was read, s1 changed, and this read called fn again
C14_Witness ==
  /\ prog = "plain" /\ op.name = "get" /\ op.node = "c1" /\ calls = <<"c1">>
  /\ steps = 3 /\ hasValue["c1"] /\ ~stale["c1"]

\* ---------------------------------------------------------------- C15
ReadBy(n) == {reads'[i][2] : i \in {j \in 1..Len(reads') : reads'[j][1] = n}}
Recomputed(c) == c \in Range(calls') /\ ~computing'[c]
RunCompleted(e) == \E i \in 1..Len(ran') : ran'[i].t = "run" /\ ran'[i].e = e
Executed(n) == IF n \in Computeds THEN Recomputed(n) ELSE n \in Effects /\ RunCompleted(n)

\* C15: after a step in which a computed completed a recompute or an effect
\* completed a run, the deps of that node are exactly the nodes it read in that
\* execution, each of them has the node in its subs, and no other node has.
C15_DepsAreReads ==
  [][\A n \in Nodes : Executed(n) =>
        /\ Range(deps'[n]) = ReadBy(n)
        /\ \A d \in Nodes : n \in Range(subs'[d]) <=> d \in ReadBy(n)]_vars

\* c1 had read s1 and s2; s1 is now 0 and the recompute dropped the edge to s2
C15_Witness ==
  /\ op.name = "get" /\ op.node = "c1" /\ calls = <<"c1">> /\ ~computing["c1"]
  /\ value["s1"] = 0 /\ steps > 1
  /\ deps["c1"] = <<"s1">> /\ subs["s2"] = <<>> /\ subs["s1"] = <<"c1">>

\* ---------------------------------------------------------------- C16
RuntimeUnchanged ==
  /\ cval' = cval /\ stale' = stale /\ hasValue' = hasValue /\ computing' = computing
  /\ deps' = deps /\ subs' = subs /\ cleanups' = cleanups /\ registry' = registry
  /\ queue' = queue /\ scheduled' = scheduled /\ microtasks' = microtasks
  /\ atomicLogs' = atomicLogs /\ batchDepth' = batchDepth /\ atomicDepth' = atomicDepth
  /\ ran' = <<>> /\ thrown' = None

\* C16: a set whose value equals the current one changes nothing: no computed
\* becomes stale, no effect is queued, no flush is requested, no log entry is
\* written and no effect runs.
C16_EqualSetIsNoOp ==
  [][op'.name = "set" /\ value' = value => RuntimeUnchanged]_vars

\* e1 subscribes to both signals and s1 is already 1: this set was s1.set(1) or
\* s2.set(current), and it queued nothing
C16_Witness ==
  /\ op.name = "set" /\ value["s1"] = 1 /\ batchDepth = 0
  /\ "e1" \in Range(subs["s1"]) /\ "e1" \in Range(subs["s2"]) /\ "e1" \in registry
  /\ queue = <<>> /\ ~scheduled /\ microtasks = 0

\* ---------------------------------------------------------------- C17
Reverse(q) == [i \in 1..Len(q) |-> q[Len(q) + 1 - i]]
IsCleanupOf(x, e) == x.t = "cleanup" /\ x.e = e
CleanupIdx(events, e) == {i \in 1..Len(events) : IsCleanupOf(events[i], e)}
RunIdx(events, e) == {i \in 1..Len(events) : events[i].t = "run" /\ events[i].e = e}

RECURSIVE CleanupsCalled(_, _)
\* the cleanups of e called by the events, in call order
CleanupsCalled(events, e) ==
  IF events = <<>> THEN <<>>
  ELSE IF IsCleanupOf(Head(events), e)
       THEN <<Head(events).seen[1]>> \o CleanupsCalled(Tail(events), e)
       ELSE CleanupsCalled(Tail(events), e)

Drained(e) ==
  \/ RunCompleted(e)
  \/ op'.name = "dispose" /\ op'.node = e /\ ~disposed[e]

Edges(d) == {<<n, m>> \in Nodes \X Nodes : m \in Range(d[n])}
BackEdges(sb) == {<<n, m>> \in Nodes \X Nodes : n \in Range(sb[m])}

\* the functions that contain a get() of node n
Readers(n) ==
  CASE n \in Signals -> {"e1", "c1"}
    [] n = "c1" -> IF prog = "cyclic" THEN {"c1", "c2"} ELSE {"c2"}
    [] n = "c2" -> IF prog = "cyclic" THEN {"c1", "e2"} ELSE {"e2"}
    [] OTHER -> {}

\* every get() of the step saw as observer the node whose function called it
\* (none for the get() the step itself called)
ReadsAttributed ==
  \A i \in 1..Len(reads') :
    \/ reads'[i][1] \in Readers(reads'[i][2])
    \/ i = 1 /\ op'.name = "get" /\ reads'[i] = <<None, op'.node>>

NestedTracked(a, b, x, y) ==
  IF Kind(b) = "signal"
  THEN thrown' = "IllegalEdge" /\ deps' = deps /\ subs' = subs
  ELSE /\ thrown' = None
       /\ Edges(deps') = Edges(deps) \cup {<<b, x>>, <<a, y>>}
       /\ BackEdges(subs') = BackEdges(subs) \cup {<<b, x>>, <<a, y>>}

ObserverStep ==
  /\ ReadsAttributed
  /\ (RunCompleted("e1") => ReadBy("e1") = {"s1", "s2"})
  /\ (op'.name = "trackOutside" => deps' = deps /\ subs' = subs /\ thrown' = None)
  /\ (op'.name = "withObserver" =>
        NestedTracked(op'.log[1], op'.log[2], op'.log[3], op'.log[4]))

\* C18: between two calls no observer is current, whether the last call
\* returned or threw, and track then adds no edge; while a function runs under
\* withObserver its reads are tracked for its own node, also after a nested
\* withObserver inside it has returned.
C18_Observer == [](currentObserver = None) /\ [][ObserverStep]_vars

\* e1 read s1, created e2 in its body (e2 read c2, c2 read c1, c1 read s1) and
\* then read s2 as e1 again
C18_Witness ==
  /\ prog = "nested" /\ op.name = "createEffect" /\ currentObserver = None
  /\ Len(reads) >= 5
  /\ reads[1] = <<"e1", "s1">> /\ reads[2] = <<"e2", "c2">> /\ reads[3] = <<"c2", "c1">>
  /\ reads[4] = <<"c1", "s1">> /\ reads[Len(reads)] = <<"e1", "s2">>
  /\ deps["e1"] = <<"s1", "s2">>

\* ---------------------------------------------------------------- C19
\* C19: no effect is active between two calls, and every completed run of e1,
\* whose body calls onCleanup(A) last and returns B, leaves e1 with the
\* cleanups A and B, also when the body created another effect before.
C19_AsStated ==
  [](activeEffect = None)
    /\ [][RunCompleted("e1") => cleanups'["e1"] = <<"A", "B">>]_vars

\* ---------------------------------------------------------------- C20
EdgeCall == op'.name \in {"link", "track", "subscribe"}

\* C20: link from a signal, track under a signal observer and subscribe with a
\* signal observer throw and change no deps and no subs, the same calls from a
\* computed or an effect do not throw, and no signal ever has a dependency.
C20_SignalsHaveNoDeps ==
  [](\A s \in Signals : deps[s] = <<>>)
    /\ [][EdgeCall =>
            IF Kind(op'.node) = "signal"
            THEN thrown' = "IllegalEdge" /\ deps' = deps /\ subs' = subs
            ELSE thrown' = None]_vars

\* link(s1, c1) was called on a graph that already has edges
C20_Witness ==
  /\ op.name = "link" /\ op.node = "s1" /\ thrown = "IllegalEdge"
  /\ deps["s1"] = <<>> /\ subs["c1"] = <<>> /\ subs["s1"] # <<>>

\* ---------------------------------------------------------------- C21
\* C21: in every reachable state every effect has an empty subs set.
C21_AsStated == [](\A e \in Effects : subs[e] = <<>>)

\* C21 (amended): an effect gains a subscriber only in a step that calls link
\* or track directly; creating, running, scheduling and disposing nodes,
\* reading computeds, writing signals and subscribing to signals add none.
C21_EffectSubs ==
  [][\A e \in Effects :
        ~(Range(subs'[e]) \subseteq Range(subs[e])) => op'.name \in {"link", "track"}]_vars

\* both effects exist, e1 was re-run by a flush, and neither has a subscriber
C21_Witness ==
  /\ op.name = "microtask" /\ RunIdx(ran, "e1") # {}
  /\ deps["e1"] = <<"s1", "s2">> /\ "e2" \in registry /\ deps["e2"] # <<>>
  /\ \A e \in Effects : subs[e] = <<>>

\* ---------------------------------------------------------------- C22
NoScopeOpen == ctx = <<>> /\ pending = {}
AtRest == batchDepth = 0 /\ atomicDepth = 0 /\ muted = 0 /\ atomicLogs = <<>>

Balanced ==
  /\ Len(atomicLogs) = atomicDepth
  /\ 0 <= atomicDepth /\ atomicDepth <= batchDepth
  /\ muted >= 0
  /\ (NoScopeOpen => AtRest)

\* C22: the log stack is as deep as atomicDepth, 0 <= atomicDepth <= batchDepth,
\* muted >= 0, and all of them are at rest when no scope is open.
C22_AsStated == []Balanced

\* ---------------------------------------------------------------- C23
\* C23: at most one flush microtask is outstanding, and scheduled is true
\* exactly when one is.
C23_AsStated == [](microtasks <= 1 /\ (scheduled <=> microtasks = 1))

\* What the flag does guarantee: while scheduled is true a flush microtask is
\* outstanding, and a step queues a microtask only when scheduled was false
\* and no batch was open, one at a time.
C23_Scheduled ==
  [](scheduled => microtasks >= 1)
    /\ [][microtasks' > microtasks =>
            ~scheduled /\ scheduled' /\ microtasks' = microtasks + 1 /\ batchDepth = 0]_vars

\* ---------------------------------------------------------------- C24
\* the step called flushJobs from outside any flush and the call returned
FlushCompleted ==
  /\ thrown' = None
  /\ \/ op'.name = "microtask"
     \/ op'.name = "flushSync" /\ (scheduled \/ queue # <<>>)
     \/ op'.name \in {"commit", "fulfil"} /\ batchDepth' = 0

\* C24: when a flushJobs call has returned, the queue is empty and scheduled
\* is false, also when a job it ran scheduled another job.
C24_AsStated == [][FlushCompleted => queue' = <<>> /\ ~scheduled']_vars

\* What holds: the queue is empty, and every job that was queued or that a job
\* of the flush scheduled has run in it, the scheduled ones after the
\* snapshot that scheduled them; scheduled is false unless a job of the flush
\* called scheduleJob.
C24_Drained ==
  [][FlushCompleted =>
       /\ queue' = <<>>
       /\ \A e \in Range(queue) : ~disposed[e] => RunIdx(ran', e) # {}
       /\ (prog = "relay" /\ value'["s2"] # value["s2"] =>
             \A i \in RunIdx(ran', "e1"), j \in RunIdx(ran', "e2") :
               i < j \/ \E k \in RunIdx(ran', "e2") : k > i)
       /\ (scheduled' => prog = "relay" /\ value'["s2"] # value["s2"])]_vars

\* ---------------------------------------------------------------- C25
OpenFrames == Range(ctx) \cup pending
CommitStep == op'.name \in {"commit", "fulfil"}
CommitFlushesOutermost ==
  CommitStep =>
    IF batchDepth = 1 THEN FlushedOnce /\ queue' = <<>>
    ELSE ran' = <<>> /\ queue' = queue

PendingInside(f) == {g \in pending : g.d0 > f.d0}

\* the step ran every job that was queued and left the queue empty
FlushedAll ==
  /\ \A e \in Range(queue) : ~disposed[e] => Runs(ran', e) >= 1
  /\ queue' = <<>>

\* C26: when fn throws inside batch(fn), batchDepth is back at the value it had
\* when batch was called (plus one for each async scope fn left awaiting), the
\* jobs queued are run by that exit if batchDepth is then 0 and none runs
\* otherwise, and the error reaches the caller.
C26_BatchThrow ==
  [][op'.name = "batchExit" /\ thrown' = "E" =>
       /\ batchDepth' = Top.d0 + Cardinality(PendingInside(Top))
       /\ IF batchDepth' = 0 THEN FlushedAll ELSE ran' = <<>> /\ queue' = queue]_vars

\* fn of the outermost batch threw after a write: the exit still ran the jobs
C26_Witness ==
  /\ op.name = "batchExit" /\ thrown = "E" /\ op.d = 1 /\ op.q # <<>>
  /\ RunIdx(ran, "e1") # {} /\ batchDepth = 0 /\ queue = <<>> /\ ctx = <<>>
\* ---------------------------------------------------------------- C27
\* A set made while no scope is on the call stack and an async atomic scope is
\* awaiting: the code of the task that runs beside the scope makes such a
\* write (the continuation of fn after its await makes one too, and the
\* runtime has nothing to tell the two apart: inAtomic() is atomicDepth > 0).
WriteBesideScope ==
  /\ op'.name = "set" /\ ctx = <<>> /\ pending # {} /\ atomicLogs # <<>>
  /\ value' # value

\* the signals whose value a step changed
Changed == {s \in Signals : value'[s] # value[s]}

\* C27: a signal write made while an async atomic scope is awaiting, by code
\* outside the scope's fn, adds nothing to the scope's write log, and the
\* rejection of the scope changes no signal but those that the code of fn wrote.
C27_AsStated ==
  /\ [][WriteBesideScope => atomicLogs' = atomicLogs]_vars
  /\ [][op'.name = "reject" =>
         \A p \in pending : p.id = op'.id => Changed \subseteq p.ws]_vars

\* what the code does: the write is recorded in the log on top of the stack
\* with the value the signal had, and the rejection puts that value back
C27_Recorded ==
  /\ [][WriteBesideScope =>
         \A s \in Changed :
           MapHas(atomicLogs'[Len(atomicLogs')], s)
           /\ (~MapHas(atomicLogs[Len(atomicLogs)], s) =>
                 MapGet(atomicLogs'[Len(atomicLogs')], s) = value[s])]_vars
  /\ [][op'.name = "reject" /\ atomicLogs # <<>> =>
         \A en \in Range(atomicLogs[Len(atomicLogs)]) : value'[en[1]] = en[2]]_vars

\* a scope that wrote nothing itself rejected and took back a write made
\* beside it while it was awaiting
C27_Reverted ==
  /\ op.name = "reject" /\ op.log # <<>> /\ pending = {} /\ ctx = <<>>
  /\ \E en \in Range(op.log) : value[en[1]] = en[2] /\ en[2] = 0
\* ---------------------------------------------------------------- C28
\* the last step ran the body of effect e
JobRan(e) == RunIdx(ran, e) # {}

\* C28: a job that is in the queue and whose scheduling no open atomic scope
\* encloses is eventually run, unless it is disposed first.
C28_AsStated ==
  \A e \in Effects :
    (e \in Range(queue) /\ ~disposed[e] /\ atomicDepth = 0) ~> (JobRan(e) \/ disposed[e])

\* what the code gives: a queued job is eventually run or the queue holding it
\* is cleared by the rollback of some atomic scope, whether that scope
\* encloses the scheduling of the job or not
C28_RunOrDiscarded ==
  \A e \in Effects :
    (e \in Range(queue) /\ ~disposed[e])
      ~> (JobRan(e) \/ disposed[e] \/ op.name \in {"rollback", "reject"})

\* no job is left in the queue for good
C28_QueueDrains == <>[](queue = <<>>)
\* ---------------------------------------------------------------- C30
\* the jobs that were queued when scope f was entered and are still queued
\* stay queued over the step
KeepsEarlierJobs(f) == \A e \in f.q0 \cap Range(queue) : e \in Range(queue')

RollbackKeepsEarlierJobs ==
  /\ op'.name = "rollback" => KeepsEarlierJobs(Top)
  /\ op'.name = "reject" => \A p \in pending : p.id = op'.id => KeepsEarlierJobs(p)

\* C30: the rollback of an atomic scope leaves in the queue the jobs that were
\* scheduled before the scope was entered.
C30_AsStated == [][RollbackKeepsEarlierJobs]_vars

RollbackClearsQueue ==
  op'.name \in {"rollback", "reject"} => queue' = <<>> /\ ~scheduled'

\* what the code does: a rollback empties the queue and resets scheduled,
\* whoever scheduled the jobs
C30_Cleared == [][RollbackClearsQueue]_vars

\* a job scheduled by a write outside any scope was dropped by the rollback of
\* a scope entered afterwards, and its effect never saw the value written
C30_Dropped ==
  /\ op.name = "rollback" /\ op.q # <<>> /\ queue = <<>> /\ ctx = <<>> /\ pending = {}
  /\ op.log = <<>> /\ value # [s \in Signals |-> 0]
\* ---------------------------------------------------------------- C29
\* the runtime with every cache discarded
Uncached ==
  [Cur EXCEPT !.stale = [c \in Computeds |-> TRUE],
              !.computing = [c \in Computeds |-> FALSE]]

\* what the function of computed c yields from the current values of the
\* signals: the value get() returns once every cache is discarded
Fresh(c) == computedGet(Uncached, c).ret

Cached(c) == ~stale[c] /\ hasValue[c]

\* C29: a computed with stale = false and hasValue = true holds the value that
\* its function yields from the current values of the signals it reads,
\* directly or through other computeds.
C29_AsStated == \A c \in Computeds : Cached(c) => cval[c] = Fresh(c)

\* c is on the subs of every computed its function reads: c2 reads c1
Subscribed(c) == c = "c2" => InSubs("c2", "c1") /\ InDeps("c1", "c2")

\* the same for the computeds that are still linked to the computeds they
\* read; dispose() of a computed unlinks its subscribers and leaves their
\* caches as they are
C29_Coherent == \A c \in Computeds : Cached(c) /\ Subscribed(c) => cval[c] = Fresh(c)

\* a rollback restored a signal written in its scope and marked no computed
\* stale (c1 does not read s2 while s1 is 0): the caches stand and are right
C29_Witness ==
  /\ op.name = "rollback" /\ op.log # <<>> /\ ctx = <<>>
  /\ Cached("c1") /\ Cached("c2") /\ Subscribed("c2")
  /\ cval["c2"] = Fresh("c2")

\* a rollback restored a signal that c1 reads: the caches hold the values
\* computed inside the scope and are marked stale
C29_StaleAfterRollback ==
  /\ op.name = "rollback" /\ op.log # <<>> /\ ctx = <<>>
  /\ hasValue["c2"] /\ stale["c2"] /\ stale["c1"] /\ cval["c2"] # Fresh("c2")
\* ---------------------------------------------------------------- C31
\* two async atomic scopes are awaiting on the task, each with the log it
\* pushed on the stack, and nothing else is open
Overlapping ==
  /\ ctx = <<>> /\ Cardinality(pending) = 2 /\ Len(logOwner) = 2
  /\ \A p \in pending : HasLog(p.id, logOwner)

\* the signals recorded in a log
Logged(log) == {log[k][1] : k \in 1..Len(log)}

\* the scope p settles on its own log: that log leaves the stack, the log of
\* the other scope stays as it is, and a rejection restores the signals of
\* the log of p and no other
SettlesOnOwnLog(p) ==
  /\ ~HasLog(p.id, logOwner')
  /\ \A q \in pending \ {p} :
       /\ HasLog(q.id, logOwner')
       /\ LogOf(q.id, atomicLogs', logOwner') = LogOf(q.id, atomicLogs, logOwner)
  /\ op'.name = "reject" =>
       /\ Restored(LogOf(p.id, atomicLogs, logOwner))
       /\ \A s \in Signals \ Logged(LogOf(p.id, atomicLogs, logOwner)) : value'[s] = value[s]

SettleStep ==
  Overlapping /\ op'.name \in {"fulfil", "reject"} =>
    \A p \in pending : p.id = op'.id => SettlesOnOwnLog(p)

\* C31: when two async atomic scopes overlap and one of them settles, it
\* commits or rolls back on its own write log: a rejection restores the signals
\* written inside it and leaves the values and the log of the other scope.
C31_AsStated == [][SettleStep]_vars

SettlePopsTop ==
  op'.name \in {"fulfil", "reject"} /\ atomicLogs # <<>> =>
    /\ logOwner' = SubSeq(logOwner, 1, Len(logOwner) - 1)
    /\ op'.name = "reject" => Restored(TopLog)

\* what the code does: the scope that settles takes the log on top of the
\* stack, whichever scope pushed it
C31_PopsTop == [][SettlePopsTop]_vars

\* the scope entered first rejected while the second was awaiting: the log of
\* the second left the stack and its write was reverted
C31_WrongLog ==
  /\ op.name = "reject" /\ Cardinality(pending) = 1 /\ Len(logOwner) = 1
  /\ \A p \in pending : ~HasLog(p.id, logOwner) /\ p.ws # {}
  /\ logOwner[1] = op.id /\ op.log # <<>>
\* ---------------------------------------------------------------- C32
RECURSIVE Downstream(_, _, _)
\* the computeds reached from those of X through subs in at most n steps,
\* going on through every computed (all) or only through those not stale
Downstream(X, n, all) ==
  IF n = 0 THEN X
  ELSE Downstream(X \cup {d \in Computeds : (all \/ ~stale[d]) /\ \E x \in X : InSubs(d, x)},
                  n - 1, all)

\* every computed reachable from c through subs
Reachable(c) == Downstream({c}, Cardinality(Computeds), TRUE)
\* those that markStale(c) visits: it returns at a computed that is stale
Visited(c) == Downstream({c}, Cardinality(Computeds), FALSE)

\* the effects with a registry instance that are subscribed to a computed of X
EffectSubs(X) == {e \in Effects : e \in registry /\ \E x \in X : InSubs(e, x)}

\* markStale(node) marked the computeds of X and called schedule() on the
\* effects subscribed to them, and did nothing else
Marks(X) ==
  /\ stale' = [c \in Computeds |-> stale[c] \/ c \in X]
  /\ \A e \in EffectSubs(X) : ~disposed[e] => e \in Range(queue')
  /\ Range(queue') = Range(queue) \cup {e \in EffectSubs(X) : ~disposed[e]}
  /\ value' = value /\ cval' = cval /\ hasValue' = hasValue /\ deps' = deps
  /\ subs' = subs /\ thrown' = None

MarksNothing == RuntimeUnchanged /\ value' = value

MarkStaleStep(all) ==
  op'.name = "markStale" =>
    IF Kind(op'.node) = "computed" /\ ~stale[op'.node]
    THEN Marks(Downstream({op'.node}, Cardinality(Computeds), all)) ELSE MarksNothing

\* C32: markStale on a computed that is not stale marks it and every computed
\* reachable from it through subs and schedules every effect subscribed to one
\* of them; on any other node, or on a stale computed, it changes nothing.
C32_AsStated == [][MarkStaleStep(TRUE)]_vars

\* the same with the computeds that markStale visits: it goes on through the
\* subscribers that are not stale and stops at those that are
C32_Propagates == [][MarkStaleStep(FALSE)]_vars

\* markStale(c1) marked c1 and c2 and scheduled the effect that reads c2
C32_Witness ==
  /\ op.name = "markStale" /\ op.node = "c1" /\ stale["c1"] /\ stale["c2"]
  /\ "e2" \in Range(queue) /\ "e2" \notin Range(op.q) /\ InSubs("c2", "c1")
  /\ InSubs("e2", "c2")
\* ---------------------------------------------------------------- C33
\* the body of effect e was entered in the step (it read a node)
Started(e) == \E i \in 1..Len(reads') : reads'[i][1] = e

\* a flush called by the host or by flushSync ended by the error of a job
JobThrew == op'.name \in {"microtask", "flushSync"} /\ thrown' = "E"

KeepsPendingJobs ==
  JobThrew => \A e \in Range(queue) : ~disposed[e] /\ ~Started(e) => e \in Range(queue')

\* C33: when a job throws in the baseline flush the error leaves flushJobs and
\* every job that was queued and has not run yet is still in the queue.
C33_AsStated == [][KeepsPendingJobs]_vars

DropsPendingJobs == JobThrew => queue' = <<>> /\ ~scheduled'

\* what the code does: the queue was emptied into the list before the first
\* job ran, and the jobs of the list behind the one that threw are dropped
C33_Dropped == [][DropsPendingJobs]_vars

\* e2 threw in a flush that held e1 behind it: e1 did not run and is queued
\* nowhere
C33_Lost ==
  /\ op.name = "microtask" /\ thrown = "E" /\ op.q = <<"e2", "e1">>
  /\ RunIdx(ran, "e1") = {} /\ queue = <<>> /\ microtasks = 0 /\ ~disposed["e1"]
\* ---------------------------------------------------------------------------
\* C34: the baseline flushJobs always terminates. It returns once the queue is
\* empty, and when the jobs keep scheduling new work, so that more than
\* GuardLimit drain iterations occur in one flush, it throws the
\* infinite-update-loop error instead of looping forever: the guard of a call
\* in progress never exceeds GuardLimit, every iteration either ends the call
\* or adds one to the guard, the call returns only on an empty queue, the error
\* is thrown by the iteration after GuardLimit of them and by no other, and
\* every call in progress ends.
Flushing == guards # <<>>
GuardBounded == Flushing => guards[1] <= GuardLimit
DrainCounts ==
  op'.name = "drain" =>
    \/ guards' = <<guards[1] + 1>> /\ thrown' = None
    \/ guards' = <<>> /\ thrown' # None
LoopErrorAtLimit ==
  op'.name = "drain" => (thrown' = "InfiniteUpdateLoop" <=> guards[1] = GuardLimit)
ReturnsOnEmptyQueue ==
  op'.name = "flushReturn" => (queue = <<>> /\ queue' = <<>> /\ guards' = <<>>)
FlushStep == DrainCounts /\ LoopErrorAtLimit /\ ReturnsOnEmptyQueue
C34_Terminates ==
  /\ []GuardBounded
  /\ [][FlushStep]_vars
  /\ (Flushing ~> ~Flushing)

\* the flush of the spinning application was ended by the guard
C34_Witness ==
  op.name = "drain" /\ thrown = "InfiniteUpdateLoop" /\ prog = "spinning" /\ ~Flushing

\* ---------------------------------------------------------------------------
\* C35: in a topological flush round with acyclic dependsOn, a job whose
\* dependsOn contains jobs queued in the same round runs after all of them,
\* whatever the enqueue order, the kinds or the priorities; dependsOn entries
\* that are not queued in that round are ignored and do not delay the job:
\* every queued job is run by the round, once.
Queued == Range(allJobs)
QueuedDeps(k) == dependsOn[k] \cap Queued
Upstream1(k) == QueuedDeps(k)
Upstream2(k) == Upstream1(k) \cup UNION {QueuedDeps(d) : d \in Upstream1(k)}
Upstream(k) == Upstream2(k) \cup UNION {QueuedDeps(d) : d \in Upstream2(k)}
Acyclic == \A k \in Queued : k \notin Upstream(k)
FlushRound == op'.name \in {"flushSync", "microtask"} /\ allJobs # <<>>
PosIn(q, j) == CHOOSE i \in 1..Len(q) : q[i] = j
RunsAfter(k, d) ==
  /\ d \in Range(ran') /\ k \in Range(ran')
  /\ PosIn(ran', d) < PosIn(ran', k)
RunOnce(j) == Cardinality({i \in 1..Len(ran') : ran'[i] = j}) = 1
DepsFirst ==
  FlushRound /\ Acyclic /\ thrown' = None =>
    \A k \in Queued : RunOnce(k) /\ \A d \in QueuedDeps(k) : RunsAfter(k, d)
C35_DepsFirst == [][DepsFirst]_vars

\* a round ran the computed job k, which was queued first, after the two jobs
\* without kind it depends on, or after one of them while the other was not
\* queued
C35_Witness ==
  /\ op.name \in {"flushSync", "microtask"}
  /\ \E k \in Range(round.start) :
       /\ Cardinality(dependsOn[k]) = Cardinality(Jobs) - 1
       /\ round.start[1] = k /\ ran[Len(ran)] = k
       /\ jobKind[k] = "computed"
       /\ \A d \in dependsOn[k] : jobKind[d] = None
       /\ \E d \in dependsOn[k] : d \in Range(ran)
       /\ \E d \in dependsOn[k] : d \notin Range(round.start)

\* ---------------------------------------------------------------------------
\* C36: among the jobs that are ready at the same time in a topological flush
\* round, the one executed next is the minimum by (phase, priority, enqueue
\* order): computed before effect, a job without kind counting as effect, then
\* the smaller priority (0 by default), then the one that entered the ready
\* heap earlier, which for the jobs ready when the round starts is the order of
\* scheduleJob; so with no dependsOn among the queued jobs every computed job of
\* the round runs before every effect job.
Phase(j) == IF jobKind[j] \in {"effect", None} THEN 1 ELSE 0
Prio(j) == IF priority[j] = <<>> THEN 0 ELSE priority[j][1]
Precedes(E, x, y) ==
  \/ Phase(x) < Phase(y)
  \/ Phase(x) = Phase(y) /\ Prio(x) < Prio(y)
  \/ Phase(x) = Phase(y) /\ Prio(x) = Prio(y) /\ E[x][1] < E[y][1]
PopsMinimum ==
  \A i \in 1..Len(round'.pops) :
    \A y \in round'.pops[i].ready \ {round'.pops[i].job} :
      Precedes(round'.pops[i].enq, round'.pops[i].job, y)
ReadyAtStart == {j \in Queued : QueuedDeps(j) = {}}
EnqueueOrder ==
  \A x, y \in ReadyAtStart :
    PosIn(allJobs, x) < PosIn(allJobs, y) => enq'[x][1] < enq'[y][1]
ComputedFirst ==
  ReadyAtStart = Queued =>
    \A c, e \in Queued : Phase(c) < Phase(e) => RunsAfter(e, c)
ReadyOrder == FlushRound => PopsMinimum /\ EnqueueOrder /\ ComputedFirst
OneMicrotask == microtasks <= 1
RunsQueuedOnly ==
  FlushRound =>
    /\ Range(ran') \subseteq Queued
    /\ \A j \in Range(ran') : RunOnce(j)
C37_AsStated == []OneMicrotask /\ [][RunsQueuedOnly]_vars

\* a round started by the only outstanding microtask left two of them behind
TwoMicrotasks ==
  op'.name = "microtask" /\ microtasks = 1 /\ thrown' = None => microtasks' <= 1
C37_RoundKeepsOne == [][TwoMicrotasks]_vars

\* under SpecAgain: a round ran a job that one of its jobs had scheduled
C37_RanAtOnce ==
  /\ op.name \in {"flushSync", "microtask"}
  /\ \E j \in Range(ran) : j \notin Range(round.start)

\* ---------------------------------------------------------------------------
\* C38: in the topological flush an exception thrown by a job does not swallow
\* pending jobs: every other job that was queued at that time either has
\* already run or remains queued, for a later flush round to run it.
RunOrKept == \A j \in Queued : j \in Range(ran') \/ j \in Range(allJobs')
KeepsJobsOnThrow == FlushRound /\ thrown' # None => RunOrKept
C38_AsStated == [][KeepsJobsOnThrow]_vars

\* what the code gives: the jobs are kept when the job that throws was taken
\* from the ready heap, not when the fallback ran it
KeepsJobsOutsideFallback ==
  FlushRound /\ thrown' # None /\ ~round'.fallback => RunOrKept
C38_HeapKeeps == [][KeepsJobsOutsideFallback]_vars

\* the fallback of a round ran a job that threw, and a job that was queued
\* when the round started neither ran nor is queued any more
C38_Lost ==
  /\ op.name \in {"flushSync", "microtask"} /\ thrown # None /\ round.fallback
  /\ \E j \in Range(round.start) : j \notin Range(ran) /\ j \notin Range(allJobs)

\* ---------------------------------------------------------------------------
\* C39: with cyclic dependsOn among the queued jobs the topological flush does
\* not deadlock: every queued job is eventually executed, exactly once, the
\* jobs blocked by the cycle being run in insertion order by the fallback of a
\* round that made no progress.  A step removes a job from allJobs only by
\* running it, a round runs a job at most once, a round in which no job is
\* ready runs all of them by the fallback in the order of allJobs, and the
\* fallback runs in no other round.
Cyclic == \E k \in Queued : k \in Upstream(k)
RemovedOnlyByRun == Queued \ Range(allJobs') \subseteq Range(ran')
RanOnce == \A j \in Range(ran') : RunOnce(j) /\ j \in Queued
FallbackInOrder ==
  FlushRound =>
    /\ round'.fallback <=> ReadyAtStart = {}
    /\ round'.fallback => ran' = allJobs /\ allJobs' = <<>>
CycleStep == RemovedOnlyByRun /\ RanOnce /\ FallbackInOrder
RunByRound(j) == op.name \in {"flushSync", "microtask"} /\ j \in Range(ran)
C39_CycleBreaks ==
  /\ [][CycleStep]_vars
  /\ \A j \in Jobs : (j \in Range(allJobs)) ~> RunByRound(j)

\* a round ran j3, which was ready, and left j1 and j2, which depend on each
\* other, to the fallback of the next round
C39_Witness ==
  /\ op.name = "microtask" /\ round.fallback
  /\ round.start = <<"j1", "j2">> /\ ran = round.start /\ allJobs = <<>>
  /\ "j1" \in dependsOn["j2"] /\ "j2" \in dependsOn["j1"]
  /\ enq["j3"] # <<>> /\ enq["j1"] = <<>>

\* ---------------------------------------------------------------------------
\* C40: a disposed effect never holds a dependency edge afterwards, even when
\* its disposer is invoked from inside its own running body or from one of its
\* cleanups: in every reachable state, disposed = true implies that the deps
\* of the effect node is empty and that the node is in no other node's subs.
NoEdge(e) == deps[e] = <<>> /\ \A n \in Nodes : e \notin Range(subs[n])
C40_AsStated == \A e \in Effects : disposed[e] => NoEdge(e)

\* what the code gives: the dispose call that sets disposed removes the edges
DisposeUnlinks ==
  \A e \in Effects :
    op'.name = "dispose" /\ op'.node = e /\ ~disposed[e] =>
      disposed'[e] /\ deps'[e] = <<>> /\ \A n \in Nodes : e \notin Range(subs'[n])
C40_DisposeUnlinks == [][DisposeUnlinks]_vars

\* a flush re-ran e1, whose cleanup disposed it, and the body that ran
\* afterwards subscribed the disposed effect again
C40_Zombie ==
  /\ op.name \in {"flushSync", "microtask"}
  /\ disposed["e1"] /\ "e1" \notin registry
  /\ deps["e1"] # <<>> /\ "e1" \in Range(subs["s1"])

====
